---------------------------- MODULE Spec2Model ----------------------------
(***************************************************************************)
(* Verification model of h3arrow: typed columns of H3 indexes (H3Array),   *)
(* ragged lists of indexes (H3ListArray and its builder) and the grid      *)
(* algorithms built on them.                                               *)
(*                                                                         *)
(* A raw index is a 64-bit word.  The model keeps the H3 bit layout        *)
(* (mode | aux | resolution | one 3-bit digit per resolution level, the    *)
(* digit 7 marking an unused level) but keeps only MaxRes digit levels and *)
(* one base cell, so that every word fits the integers of the checker.     *)
(***************************************************************************)
EXTENDS Integers, Sequences, FiniteSets, TLC

----------------------------------------------------------------------------
(* Bounds of the model *)

MaxRes == 2
MaxLen == 3
MaxK == 2
MaxPush == 3
MaxItems == 2

----------------------------------------------------------------------------
(* Option<T>: None is the empty sequence, Some(x) the one-element sequence *)

None == << >>
Some(x) == << x >>
IsSome(o) == o # << >>
Unwrap(o) == o[1]

RECURSIVE Pow(_, _)
Pow(b, n) == IF n = 0 THEN 1 ELSE b * Pow(b, n - 1)

RECURSIVE Concat(_)
Concat(ss) == IF ss = << >> THEN << >> ELSE Head(ss) \o Concat(Tail(ss))

Min2(a, b) == IF a <= b THEN a ELSE b
Max2(a, b) == IF a >= b THEN a ELSE b

SeqsUpTo(S, n) == UNION { [1..k -> S] : k \in 0..n }

----------------------------------------------------------------------------
(* The bit layout of an index word *)

Aperture == 7
DigitBase == 8
UnusedDigit == 7
ResBase == 16
AuxBase == 8
CellMode == 1
DirectedEdgeMode == 2
VertexMode == 4

DigitsUnit == Pow(DigitBase, MaxRes)

ModeOf(v) == v \div (AuxBase * ResBase * DigitsUnit)
AuxOf(v) == (v \div (ResBase * DigitsUnit)) % AuxBase
ResOf(v) == (v \div DigitsUnit) % ResBase
DigitUnit(i) == Pow(DigitBase, MaxRes - i)
DigitOf(v, i) == (v \div DigitUnit(i)) % DigitBase

MkRaw(mode, aux, res, digits) ==
    ((mode * AuxBase + aux) * ResBase + res) * DigitsUnit + digits

SetDigit(v, i, d) == v - DigitOf(v, i) * DigitUnit(i) + d * DigitUnit(i)
SetRes(v, r) == v - ResOf(v) * DigitsUnit + r * DigitsUnit
SetModeAux(v, mode, aux) ==
    MkRaw(mode, aux, ResOf(v), v % DigitsUnit)

(* every used digit level holds a child digit, every unused level holds 7 *)
DigitsValid(v) ==
    /\ ResOf(v) <= MaxRes
    /\ \A i \in 1..MaxRes :
          IF i <= ResOf(v) THEN DigitOf(v, i) < Aperture
                           ELSE DigitOf(v, i) = UnusedDigit

IsValidCell(v) == ModeOf(v) = CellMode /\ AuxOf(v) = 0 /\ DigitsValid(v)
IsValidDirectedEdge(v) ==
    ModeOf(v) = DirectedEdgeMode /\ AuxOf(v) \in 1..6 /\ DigitsValid(v)
IsValidVertex(v) ==
    ModeOf(v) = VertexMode /\ AuxOf(v) \in 0..5 /\ DigitsValid(v)

Kinds == { "CellIndex", "DirectedEdgeIndex", "VertexIndex" }

(* IX::try_from(u64): Some(index) when the word validates, None otherwise.  *)
(* The index wraps the very same word, which is what Into<u64> gives back.  *)
IsValidIndex(k, v) ==
    CASE k = "CellIndex" -> IsValidCell(v)
      [] k = "DirectedEdgeIndex" -> IsValidDirectedEdge(v)
      [] k = "VertexIndex" -> IsValidVertex(v)

TryFromU64(k, v) == IF IsValidIndex(k, v) THEN Some(v) ELSE None

----------------------------------------------------------------------------
(* Sample words the operations are called with *)

RECURSIVE PathDigits(_, _)
PathDigits(i, r) ==
    IF i > MaxRes THEN 0
    ELSE (IF i <= r THEN i % Aperture ELSE UnusedDigit) * DigitUnit(i)
         + PathDigits(i + 1, r)

CellAt(r) == MkRaw(CellMode, 0, r, PathDigits(1, r))

SampleCells == { CellAt(0), CellAt(MaxRes) }
SampleEdge == SetModeAux(CellAt(1), DirectedEdgeMode, 3)
SampleVertex == SetModeAux(CellAt(1), VertexMode, 2)
ZeroWord == MkRaw(0, 0, 0, 0)
BadDigitWord == SetDigit(CellAt(1), 1, UnusedDigit)

RawSamples == SampleCells \cup { SampleEdge, SampleVertex, ZeroWord, BadDigitWord }
ValidSamples(k) == { v \in RawSamples : IsValidIndex(k, v) }


----------------------------------------------------------------------------
(* PrimitiveArray<u64>: a values buffer and a validity bit per position     *)
(* (an absent bitmap is the bitmap with every bit set)                      *)

AllTrue(n) == [i \in 1..n |-> TRUE]
NoCol == [values |-> << >>, validity |-> << >>]
ColLen(c) == Len(c.values)
NullCount(c) == Cardinality({ i \in 1..ColLen(c) : ~c.validity[i] })

PrimitiveFromVec(vs) == [values |-> vs, validity |-> AllTrue(Len(vs))]

(* PrimitiveArray::from_iter over Option<u64>: a None stores the default 0 *)
PrimitiveFromIter(opts) ==
    [values |-> [i \in 1..Len(opts) |-> IF IsSome(opts[i]) THEN Unwrap(opts[i]) ELSE 0],
     validity |-> [i \in 1..Len(opts) |-> IsSome(opts[i])]]

(* PrimitiveArray::iter: Some(value) at a set bit, None at an unset one *)
PrimitiveIter(c) ==
    [i \in 1..ColLen(c) |-> IF c.validity[i] THEN Some(c.values[i]) ELSE None]

PrimitiveSlice(c, offset, length) ==
    [values |-> SubSeq(c.values, offset + 1, offset + length),
     validity |-> SubSeq(c.validity, offset + 1, offset + length)]

(* Iterator::flatten over Option items: the Some payloads, in order *)
Flatten(opts) ==
    LET present == SelectSeq(opts, IsSome)
    IN [i \in 1..Len(present) |-> Unwrap(present[i])]

----------------------------------------------------------------------------
(* H3Array<IX>: the results of its constructors.                            *)
(* st = "ok" carries the column, st = "err" the value the error reports.    *)

NoArr == [st |-> "none", col |-> NoCol, err |-> "", errvalue |-> None]
OkArr(c) == [st |-> "ok", col |-> c, err |-> "", errvalue |-> None]
ErrArr(v) == [st |-> "err", col |-> NoCol, err |-> "InvalidIndex", errvalue |-> Some(v)]
ErrNotAUint64Array ==
    [st |-> "err", col |-> NoCol, err |-> "NotAUint64Array", errvalue |-> None]

(* position of the first word that fails validation, 0 when there is none *)
FirstInvalid(k, vs) ==
    LET bad == { i \in 1..Len(vs) : ~IsSome(TryFromU64(k, vs[i])) }
    IN IF bad = {} THEN 0 ELSE CHOOSE i \in bad : \A j \in bad : i <= j

(* variant: the words before the first invalid one are returned as a column *)
TryFromVecValidPrefix(k, vs) ==
    LET bad == FirstInvalid(k, vs)
    IN OkArr(PrimitiveFromVec(IF bad = 0 THEN vs ELSE SubSeq(vs, 1, bad - 1)))

(* impl TryFrom<Vec<u64>> for H3Array<IX> *)
TryFromVec(k, vs) ==
    LET bad == FirstInvalid(k, vs)
        validated == [i \in 1..Len(vs) |-> Unwrap(TryFromU64(k, vs[i]))]
    IN IF bad # 0 THEN ErrArr(vs[bad])
       ELSE OkArr(PrimitiveFromVec(validated))

(* variant: the array is taken over without looking at its words *)
TryFromPrimitiveArrayUnchecked(k, pa) == OkArr(pa)

(* impl TryFrom<PrimitiveArray<u64>> for H3Array<IX> *)
TryFromPrimitiveArray(k, pa) ==
    LET present == Flatten(PrimitiveIter(pa))
        bad == FirstInvalid(k, present)
    IN IF bad # 0 THEN ErrArr(present[bad]) ELSE OkArr(pa)

(* impl FromIterator<IX> / From<Vec<IX>> for H3Array<IX> *)
FromIterIndex(ixs) ==
    OkArr(PrimitiveFromIter([i \in 1..Len(ixs) |-> Some(ixs[i])]))

(* impl FromIterator<Option<IX>> / From<Vec<Option<IX>>> for H3Array<IX> *)
FromIterOptionIndex(oixs) ==
    OkArr(PrimitiveFromIter([i \in 1..Len(oixs) |->
                               IF IsSome(oixs[i]) THEN Some(Unwrap(oixs[i])) ELSE None]))

(* impl FromIteratorWithValidity<u64> for H3Array<IX> *)
FromIterWithValidityU64(k, vs) ==
    OkArr(PrimitiveFromIter([i \in 1..Len(vs) |-> TryFromU64(k, vs[i])]))

(* variant: a present word is kept without validation *)
FromIterWithValidityOptionUnchecked(k, opts) == OkArr(PrimitiveFromIter(opts))

(* impl FromIteratorWithValidity<Option<u64>> for H3Array<IX> *)
FromIterWithValidityOption(k, opts) ==
    OkArr(PrimitiveFromIter([i \in 1..Len(opts) |->
             IF IsSome(opts[i]) THEN TryFromU64(k, Unwrap(opts[i])) ELSE None]))

(* impl FromWithValidity<Vec<u64>>, <Vec<Option<u64>>>, <PrimitiveArray<u64>> *)
FromWithValidityVec(k, vs) == FromIterWithValidityU64(k, vs)
FromWithValidityVecOption(k, opts) == FromIterWithValidityOption(k, opts)
FromWithValidityPrimitiveArray(k, pa) == FromIterWithValidityOption(k, PrimitiveIter(pa))

(* H3Array::iter and H3Array::get: the stored word is reinterpreted as an   *)
(* index without validation wherever the validity bit is set                *)
TransmuteFromU64(v) == v
H3Iter(c) ==
    LET it == PrimitiveIter(c)
    IN [i \in 1..ColLen(c) |->
          IF IsSome(it[i]) THEN Some(TransmuteFromU64(Unwrap(it[i]))) ELSE None]
H3Get(c, i) == H3Iter(c)[i + 1]
H3Slice(c, offset, length) == PrimitiveSlice(c, offset, length)

----------------------------------------------------------------------------
(* The grid functions of h3o the algorithms call, on the modelled layout *)

Resolutions == 0..MaxRes

CellResolution(c) == ResOf(c)

(* digits of the levels below resolution r are reset to the unused digit *)
RECURSIVE ClearDigitsFrom(_, _)
ClearDigitsFrom(v, i) ==
    IF i > MaxRes THEN v ELSE ClearDigitsFrom(SetDigit(v, i, UnusedDigit), i + 1)

(* CellIndex::parent: None when r is finer than the cell *)
CellParent(c, r) ==
    IF r > ResOf(c) THEN None ELSE Some(SetRes(ClearDigitsFrom(c, r + 1), r))

CellChild(c, d) == SetRes(SetDigit(c, ResOf(c) + 1, d), ResOf(c) + 1)

(* CellIndex::children: every descendant at r, in digit order; the cell     *)
(* itself at its own resolution; nothing when r is coarser than the cell    *)
RECURSIVE CellChildren(_, _)
CellChildren(c, r) ==
    IF r < ResOf(c) THEN << >>
    ELSE IF r = ResOf(c) THEN << c >>
    ELSE Concat([d \in 1..Aperture |-> CellChildren(CellChild(c, d - 1), r)])

(* Grid distance between two cells below one parent: the children of a cell *)
(* are laid out on a ring of Aperture positions                             *)
RingDistance(a, b) ==
    LET d == IF a >= b THEN a - b ELSE b - a
    IN IF d <= Aperture - d THEN d ELSE Aperture - d

Siblings(c) ==
    IF ResOf(c) = 0 THEN << c >>
    ELSE [d \in 1..Aperture |-> SetDigit(c, ResOf(c), d - 1)]

GridDistance(a, b) ==
    IF ResOf(a) = 0 THEN 0 ELSE RingDistance(DigitOf(a, ResOf(a)), DigitOf(b, ResOf(b)))

(* CellIndex::grid_disk_distances: the (cell, distance) pairs within k,     *)
(* ring by ring                                                             *)
RECURSIVE DiskRings(_, _, _)
DiskRings(c, d, k) ==
    IF d > k THEN << >>
    ELSE LET ring == SelectSeq(Siblings(c), LAMBDA x : GridDistance(c, x) = d)
         IN [i \in 1..Len(ring) |-> << ring[i], d >>] \o DiskRings(c, d + 1, k)

CellGridDiskDistances(c, k) == DiskRings(c, 0, k)


(* The grid functions are evaluated once for every cell of the layout and  *)
(* looked up afterwards; a word that is no cell is computed directly.       *)
Range(f) == { f[i] : i \in DOMAIN f }
BaseCell == MkRaw(CellMode, 0, 0, DigitsUnit - 1)
AllCells == UNION { Range(CellChildren(BaseCell, r)) : r \in Resolutions }
ChildrenTable == [c \in AllCells |-> [r \in Resolutions |-> CellChildren(c, r)]]
ParentTable == [c \in AllCells |-> [r \in Resolutions |-> CellParent(c, r)]]
DiskTable == [c \in AllCells |-> [k \in 0..MaxK |-> CellGridDiskDistances(c, k)]]

children(c, r) == IF c \in AllCells THEN ChildrenTable[c][r] ELSE CellChildren(c, r)
parent(c, r) == IF c \in AllCells THEN ParentTable[c][r] ELSE CellParent(c, r)
grid_disk_distances(c, k) ==
    IF c \in AllCells THEN DiskTable[c][k] ELSE CellGridDiskDistances(c, k)
grid_disk(c, k) ==
    LET disk == grid_disk_distances(c, k) IN [i \in 1..Len(disk) |-> disk[i][1]]

----------------------------------------------------------------------------
(* change_resolution *)

(* variant: a cell finer than the target is pushed unchanged *)
ExtendWithCellKeepsFiner(out_vec, cell, target_resolution) ==
    IF CellResolution(cell) < target_resolution
        THEN out_vec \o children(cell, target_resolution)
    ELSE Append(out_vec, cell)

(* fn extend_with_cell *)
ExtendWithCell(out_vec, cell, target_resolution) ==
    IF CellResolution(cell) < target_resolution
        THEN out_vec \o children(cell, target_resolution)
    ELSE IF CellResolution(cell) = target_resolution
        THEN Append(out_vec, cell)
    ELSE out_vec \o parent(cell, target_resolution)

RECURSIVE ChangeResolutionVec(_, _, _)
ChangeResolutionVec(cells, resolution, out_vec) ==
    IF cells = << >> THEN out_vec
    ELSE ChangeResolutionVec(Tail(cells), resolution,
                             ExtendWithCell(out_vec, Head(cells), resolution))

(* ChangeResolutionOp::change_resolution for CellIndexArray *)
ChangeResolution(col, resolution) ==
    FromIterIndex(ChangeResolutionVec(Flatten(H3Iter(col)), resolution, << >>)).col

Repeat(x, n) == [i \in 1..n |-> x]

(* variant: the input cell is pushed once per input, not once per output *)
RECURSIVE ChangeResolutionPairedVecsOnce(_, _, _, _)
ChangeResolutionPairedVecsOnce(cells, resolution, before_vec, after_vec) ==
    IF cells = << >> THEN << before_vec, after_vec >>
    ELSE ChangeResolutionPairedVecsOnce(Tail(cells), resolution,
            Append(before_vec, Head(cells)),
            ExtendWithCell(after_vec, Head(cells), resolution))

RECURSIVE ChangeResolutionPairedVecs(_, _, _, _)
ChangeResolutionPairedVecs(cells, resolution, before_vec, after_vec) ==
    IF cells = << >> THEN << before_vec, after_vec >>
    ELSE LET len_before == Len(after_vec)
             after2 == ExtendWithCell(after_vec, Head(cells), resolution)
             before2 == before_vec \o Repeat(Head(cells), Len(after2) - len_before)
         IN ChangeResolutionPairedVecs(Tail(cells), resolution, before2, after2)

(* ChangeResolutionOp::change_resolution_paired for CellIndexArray *)
ChangeResolutionPaired(col, resolution) ==
    LET p == ChangeResolutionPairedVecs(Flatten(H3Iter(col)), resolution, << >>, << >>)
    IN [before |-> FromIterIndex(p[1]).col, after |-> FromIterIndex(p[2]).col]

----------------------------------------------------------------------------
(* List arrays: offsets, a child values array and one validity bit per      *)
(* outer element                                                            *)

UInt64Type == << "UInt64" >>
UInt32Type == << "UInt32" >>
LargeListType(child) == << "LargeList" >> \o child
ChildType(data_type) == Tail(data_type)

NoList ==
    [st |-> "none", data_type |-> << >>, offsets |-> << >>, values |-> NoCol,
     validity |-> << >>]
ErrList == [NoList EXCEPT !.st = "err"]
ListLen(l) == Len(l.validity)

(* OffsetsBuffer::try_from(Vec<i64>): not empty, starts at or above 0,      *)
(* never decreases                                                          *)
OffsetsValid(offsets) ==
    /\ Len(offsets) >= 1
    /\ offsets[1] >= 0
    /\ \A i \in 1..(Len(offsets) - 1) : offsets[i] <= offsets[i + 1]

(* ListArray::try_new: the offsets stay inside the values and there is one  *)
(* validity bit per element                                                 *)
ListTryNew(data_type, offsets, values, validity) ==
    IF /\ OffsetsValid(offsets)
       /\ offsets[Len(offsets)] <= ColLen(values)
       /\ Len(validity) = Len(offsets) - 1
    THEN [st |-> "ok", data_type |-> data_type, offsets |-> offsets,
          values |-> values, validity |-> validity]
    ELSE ErrList

(* ListArray::iter: the values slice of a valid element, None for a null *)
ListIter(l) ==
    [i \in 1..ListLen(l) |->
        IF l.validity[i]
        THEN Some(PrimitiveSlice(l.values, l.offsets[i], l.offsets[i + 1] - l.offsets[i]))
        ELSE None]

----------------------------------------------------------------------------
(* ListArrayBuilder and H3ListArrayBuilder *)

EmptyBuilder ==
    [st |-> "live", values |-> << >>, offsets |-> << >>, list_validity |-> << >>]
MovedBuilder == [EmptyBuilder EXCEPT !.st = "moved"]

(* variant: a null element also takes a slot of the values, filled with 0 *)
PushInvalidDefaultValue(b) ==
    [b EXCEPT !.offsets = Append(@, Len(b.values)),
              !.values = Append(@, 0),
              !.list_validity = Append(@, FALSE)]

(* ListArrayBuilder::push_invalid *)
PushInvalid(b) ==
    [b EXCEPT !.offsets = Append(@, Len(b.values)),
              !.list_validity = Append(@, FALSE)]

(* variant: the offset is pushed after the values were appended *)
PushValidOffsetAfter(b, it) ==
    [b EXCEPT !.offsets = Append(@, Len(b.values \o it)),
              !.values = @ \o it,
              !.list_validity = Append(@, TRUE)]

(* ListArrayBuilder::push_valid; H3ListArrayBuilder::push_valid hands it    *)
(* the words of the indexes                                                 *)
PushValid(b, it) ==
    [b EXCEPT !.offsets = Append(@, Len(b.values)),
              !.values = @ \o it,
              !.list_validity = Append(@, TRUE)]

(* H3ListArrayBuilder::extend *)
RECURSIVE BuilderExtend(_, _)
BuilderExtend(b, it) ==
    IF it = << >> THEN b
    ELSE BuilderExtend(IF IsSome(Head(it)) THEN PushValid(b, Unwrap(Head(it)))
                                           ELSE PushInvalid(b),
                       Tail(it))

(* ListArrayBuilder::build / H3ListArrayBuilder::build *)
BuilderBuild(b) ==
    ListTryNew(LargeListType(UInt64Type),
               Append(b.offsets, Len(b.values)),
               PrimitiveFromVec(b.values),
               b.list_validity)

----------------------------------------------------------------------------
(* H3ListArray *)

(* variant: an element without values is read as None *)
IterArraysEmptyIsNone(k, l) ==
    LET it == ListIter(l)
    IN [i \in 1..ListLen(l) |->
          IF IsSome(it[i]) /\ ColLen(Unwrap(it[i])) > 0
          THEN Some(TryFromPrimitiveArray(k, Unwrap(it[i])))
          ELSE None]

(* H3ListArray::iter_arrays *)
IterArrays(k, l) ==
    LET it == ListIter(l)
    IN [i \in 1..ListLen(l) |->
          IF IsSome(it[i])
          THEN Some(IF ChildType(l.data_type) # UInt64Type THEN ErrNotAUint64Array
                    ELSE TryFromPrimitiveArray(k, Unwrap(it[i])))
          ELSE None]

(* variant: the values are cut at the start of the last element *)
IntoFlattenedSkipsLast(k, l) ==
    TryFromPrimitiveArray(k, PrimitiveSlice(l.values, 0,
        IF ListLen(l) = 0 THEN 0 ELSE l.offsets[ListLen(l)]))

(* H3ListArray::into_flattened *)
IntoFlattened(k, l) ==
    IF ChildType(l.data_type) # UInt64Type THEN ErrNotAUint64Array
    ELSE TryFromPrimitiveArray(k, l.values)

(* H3ListArray::from_genericlistarray_unvalidated: the type of the list     *)
(* array itself is compared with UInt64                                     *)
FromGenericListArrayUnvalidated(value) ==
    IF value.data_type # UInt64Type THEN ErrList ELSE value

(* impl TryFrom<GenericListArray<O>> for H3ListArray<IX, O> *)
TryFromGenericListArray(k, value) ==
    LET instance == FromGenericListArrayUnvalidated(value)
        arrays == Flatten(IterArrays(k, instance))
    IN IF instance.st # "ok" THEN instance
       ELSE IF \E i \in 1..Len(arrays) : arrays[i].st # "ok" THEN ErrList
       ELSE instance

----------------------------------------------------------------------------
(* List-producing algorithms on a cell column *)

(* HierarchyOp::children / CellIndexArray::children *)
Children(col, resolution) ==
    LET it == H3Iter(col)
    IN BuilderBuild(BuilderExtend(EmptyBuilder,
          [i \in 1..ColLen(col) |->
              IF IsSome(it[i]) THEN Some(children(Unwrap(it[i]), resolution))
              ELSE None]))

(* variant: only the cells at distance k are pushed *)
GridDiskRingOnly(col, k) ==
    LET it == H3Iter(col)
    IN BuilderBuild(BuilderExtend(EmptyBuilder,
          [i \in 1..ColLen(col) |->
              IF IsSome(it[i])
              THEN Some(LET disk == SelectSeq(grid_disk_distances(Unwrap(it[i]), k),
                                              LAMBDA gd : gd[2] = k)
                        IN [j \in 1..Len(disk) |-> disk[j][1]])
              ELSE None]))

(* GridOp::grid_disk / CellIndexArray::grid_disk *)
GridDisk(col, k) ==
    LET it == H3Iter(col)
    IN BuilderBuild(BuilderExtend(EmptyBuilder,
          [i \in 1..ColLen(col) |->
              IF IsSome(it[i]) THEN Some(grid_disk(Unwrap(it[i]), k)) ELSE None]))

(* variant: an element left without values by the filter is marked null *)
RECURSIVE BuildGridDiskLoopEmptyIsNull(_, _, _, _)
BuildGridDiskLoopEmptyIsNull(cells, k, kmin, acc) ==
    IF cells = << >> THEN acc
    ELSE LET disk == IF IsSome(Head(cells))
                     THEN SelectSeq(grid_disk_distances(Unwrap(Head(cells)), k),
                                    LAMBDA gd : gd[2] >= kmin)
                     ELSE << >>
         IN BuildGridDiskLoopEmptyIsNull(Tail(cells), k, kmin,
               [grid_cells |-> acc.grid_cells \o [i \in 1..Len(disk) |-> disk[i][1]],
                grid_distances |-> acc.grid_distances \o [i \in 1..Len(disk) |-> disk[i][2]],
                offsets |-> Append(acc.offsets, Len(acc.grid_cells)),
                list_validity |-> Append(acc.list_validity, disk # << >>)])

(* variant: the radius is pushed in place of the distance of the cell *)
RECURSIVE BuildGridDiskLoopPushesRadius(_, _, _, _)
BuildGridDiskLoopPushesRadius(cells, k, kmin, acc) ==
    IF cells = << >> THEN acc
    ELSE LET disk == IF IsSome(Head(cells))
                     THEN SelectSeq(grid_disk_distances(Unwrap(Head(cells)), k),
                                    LAMBDA gd : gd[2] >= kmin)
                     ELSE << >>
         IN BuildGridDiskLoopPushesRadius(Tail(cells), k, kmin,
               [grid_cells |-> acc.grid_cells \o [i \in 1..Len(disk) |-> disk[i][1]],
                grid_distances |-> acc.grid_distances \o [i \in 1..Len(disk) |-> k],
                offsets |-> Append(acc.offsets, Len(acc.grid_cells)),
                list_validity |-> Append(acc.list_validity, IsSome(Head(cells)))])

(* variant: the filter keeps the distances above kmin only *)
RECURSIVE BuildGridDiskLoopStrictFilter(_, _, _, _)
BuildGridDiskLoopStrictFilter(cells, k, kmin, acc) ==
    IF cells = << >> THEN acc
    ELSE LET disk == IF IsSome(Head(cells))
                     THEN SelectSeq(grid_disk_distances(Unwrap(Head(cells)), k),
                                    LAMBDA gd : gd[2] > kmin)
                     ELSE << >>
         IN BuildGridDiskLoopStrictFilter(Tail(cells), k, kmin,
               [grid_cells |-> acc.grid_cells \o [i \in 1..Len(disk) |-> disk[i][1]],
                grid_distances |-> acc.grid_distances \o [i \in 1..Len(disk) |-> disk[i][2]],
                offsets |-> Append(acc.offsets, Len(acc.grid_cells)),
                list_validity |-> Append(acc.list_validity, IsSome(Head(cells)))])

(* the loop of build_grid_disk; acc holds grid_cells, grid_distances,       *)
(* offsets and list_validity; kmin is the filter (k >= kmin)                *)
RECURSIVE BuildGridDiskLoop(_, _, _, _)
BuildGridDiskLoop(cells, k, kmin, acc) ==
    IF cells = << >> THEN acc
    ELSE LET offs == Append(acc.offsets, Len(acc.grid_cells))
             disk == IF IsSome(Head(cells))
                     THEN SelectSeq(grid_disk_distances(Unwrap(Head(cells)), k),
                                    LAMBDA gd : gd[2] >= kmin)
                     ELSE << >>
         IN BuildGridDiskLoop(Tail(cells), k, kmin,
               [grid_cells |-> acc.grid_cells \o [i \in 1..Len(disk) |-> disk[i][1]],
                grid_distances |-> acc.grid_distances \o [i \in 1..Len(disk) |-> disk[i][2]],
                offsets |-> offs,
                list_validity |-> Append(acc.list_validity, IsSome(Head(cells)))])

(* fn build_grid_disk *)
BuildGridDisk(col, k, kmin) ==
    LET acc == BuildGridDiskLoop(H3Iter(col), k, kmin,
                   [grid_cells |-> << >>, grid_distances |-> << >>,
                    offsets |-> << >>, list_validity |-> << >>])
        offsets == Append(acc.offsets, Len(acc.grid_cells))
    IN IF ~OffsetsValid(offsets) THEN [cells |-> ErrList, distances |-> ErrList]
       ELSE [cells |-> ListTryNew(LargeListType(UInt64Type), offsets,
                                  PrimitiveFromVec(acc.grid_cells), acc.list_validity),
             distances |-> ListTryNew(LargeListType(UInt32Type), offsets,
                                      PrimitiveFromVec(acc.grid_distances),
                                      acc.list_validity)]

(* GridOp::grid_disk_distances and GridOp::grid_ring_distances *)
GridDiskDistances(col, k) == BuildGridDisk(col, k, 0)
GridRingDistances(col, k_min, k_max) == BuildGridDisk(col, k_max, k_min)

----------------------------------------------------------------------------
(* One-to-one operations on a column *)

(* CellIndex::children_count: 0 when r is coarser than the cell *)
CellChildrenCount(c, r) == IF r < ResOf(c) THEN 0 ELSE Pow(Aperture, r - ResOf(c))

(* VertexIndex::owner and DirectedEdgeIndex::origin: the cell the index     *)
(* belongs to                                                               *)
VertexOwner(vx) == SetModeAux(vx, CellMode, 0)
EdgeOrigin(edge) == SetModeAux(edge, CellMode, 0)

(* DirectedEdgeIndex::destination: the neighbour of the origin the edge     *)
(* points at                                                                *)
EdgeDestination(edge) ==
    LET o == EdgeOrigin(edge)
    IN IF ResOf(o) = 0 THEN o
       ELSE SetDigit(o, ResOf(o), (DigitOf(o, ResOf(o)) + AuxOf(edge)) % Aperture)

(* the index words at the valid positions of a column: the arguments the   *)
(* closures below are applied to                                            *)
ValidValues(col) == { col.values[i] : i \in { j \in 1..ColLen(col) : col.validity[j] } }

(* H3Array::map_values: f at every valid position, None at every null one; *)
(* the closure f is a function over the valid values                        *)
MapValues(col, f) ==
    [i \in 1..ColLen(col) |-> IF col.validity[i] THEN f[col.values[i]] ELSE None]

(* CellIndexArray::resolution, collected into a ResolutionArray *)
Resolution(col) ==
    PrimitiveFromIter(MapValues(col,
        [cell \in ValidValues(col) |-> Some(CellResolution(cell))]))

(* variant: a cell without parent at the resolution is kept as it is *)
ParentOrSelf(col, resolution) ==
    FromIterOptionIndex(MapValues(col,
        [cell \in ValidValues(col) |->
            IF IsSome(parent(cell, resolution)) THEN parent(cell, resolution)
            ELSE Some(cell)])).col

(* CellIndexArray::parent / HierarchyOp::parent *)
Parent(col, resolution) ==
    FromIterOptionIndex(MapValues(col,
        [cell \in ValidValues(col) |-> parent(cell, resolution)])).col

(* CellIndexArray::children_count / HierarchyOp::children_count *)
ChildrenCount(col, resolution) ==
    PrimitiveFromIter(MapValues(col,
        [cell \in ValidValues(col) |-> Some(CellChildrenCount(cell, resolution))]))

(* VertexIndexArray::owner *)
Owner(col) ==
    FromIterOptionIndex(MapValues(col,
        [vx \in ValidValues(col) |-> Some(VertexOwner(vx))])).col

(* Option::map over the items of iter(); the closure f is a function over  *)
(* the valid values                                                         *)
OptionMap(o, f) == IF IsSome(o) THEN Some(f[Unwrap(o)]) ELSE None

(* DirectedEdgeIndexArray::origin and ::destination *)
EdgeOrigins(col) ==
    LET it == H3Iter(col)
    IN FromIterOptionIndex([i \in 1..Len(it) |->
           OptionMap(it[i], [e \in ValidValues(col) |-> EdgeOrigin(e)])]).col
EdgeDestinations(col) ==
    LET it == H3Iter(col)
    IN FromIterOptionIndex([i \in 1..Len(it) |->
           OptionMap(it[i], [e \in ValidValues(col) |-> EdgeDestination(e)])]).col

----------------------------------------------------------------------------
(* grid_disk_aggregate_k: a HashMap from cell to distance, here a function  *)
(* whose domain is the set of keys                                          *)

EmptyMap == << >>
MapInsert(m, key, value) ==
    [x \in DOMAIN m \cup { key } |-> IF x = key THEN value ELSE m[x]]

(* variant: an occupied entry keeps the distance it has *)
AggregatedKeepsFirst(k_agg_method, old, grid_distance) == old

(* variant: an occupied entry takes the distance that comes last *)
AggregatedKeepsLast(k_agg_method, old, grid_distance) == grid_distance

(* the value an occupied entry is replaced with *)
Aggregated(k_agg_method, old, grid_distance) ==
    IF k_agg_method = "Min" THEN Min2(old, grid_distance) ELSE Max2(old, grid_distance)

(* the inner loop: the pairs of one disk go into the map *)
RECURSIVE AggregateDisk(_, _, _)
AggregateDisk(cellmap, disk, k_agg_method) ==
    IF disk = << >> THEN cellmap
    ELSE LET grid_cell == Head(disk)[1]
             grid_distance == Head(disk)[2]
         IN AggregateDisk(
               IF grid_cell \in DOMAIN cellmap
               THEN MapInsert(cellmap, grid_cell,
                              Aggregated(k_agg_method, cellmap[grid_cell], grid_distance))
               ELSE MapInsert(cellmap, grid_cell, grid_distance),
               Tail(disk), k_agg_method)

(* the outer loop over self.iter().flatten() *)
RECURSIVE AggregateCells(_, _, _, _)
AggregateCells(cellmap, cells, k, k_agg_method) ==
    IF cells = << >> THEN cellmap
    ELSE AggregateCells(AggregateDisk(cellmap, grid_disk_distances(Head(cells), k),
                                      k_agg_method),
                        Tail(cells), k, k_agg_method)

RECURSIVE Ascending(_)
Ascending(S) ==
    IF S = { } THEN << >>
    ELSE LET m == CHOOSE x \in S : \A y \in S : x <= y
         IN << m >> \o Ascending(S \ { m })

Reversed(f) == [i \in 1..Len(f) |-> f[Len(f) + 1 - i]]
Rotated(f, r) == [i \in 1..Len(f) |-> f[((i - 1 + r) % Len(f)) + 1]]

(* HashMap::into_iter: every key once, in an order the code does not        *)
(* choose; the orders followed are the rotations of the ascending and of    *)
(* the descending order of the keys                                         *)
IterationOrders(keys) ==
    IF keys = { } THEN { << >> }
    ELSE { Rotated(f, r) : f \in { Ascending(keys), Reversed(Ascending(keys)) },
                           r \in 0..(Cardinality(keys) - 1) }

(* GridOp::grid_disk_aggregate_k, up to the iteration over the map *)
AggregateMap(col, k, k_agg_method) ==
    AggregateCells(EmptyMap, Flatten(H3Iter(col)), k, k_agg_method)

(* GridOp::grid_disk_aggregate_k, with the order the map was iterated in *)
GridDiskAggregateK(cellmap, order) ==
    [st |-> "ok",
     cells |-> FromIterIndex([i \in 1..Len(order) |-> order[i]]).col,
     distances |-> PrimitiveFromVec([i \in 1..Len(order) |-> cellmap[order[i]]])]

(* Merging the maps of two workers that aggregated parts of a column: a     *)
(* cell both maps hold is reduced with the rule of the aggregation method   *)
MergeMaps(a, b, k_agg_method) ==
    [x \in DOMAIN a \cup DOMAIN b |->
        IF x \in DOMAIN a /\ x \in DOMAIN b THEN Aggregated(k_agg_method, a[x], b[x])
        ELSE IF x \in DOMAIN a THEN a[x] ELSE b[x]]

(* the part of a column a worker is given: the positions assigned to it, in *)
(* the order of the column                                                  *)
PartOf(col, assignment, worker) ==
    LET items == H3Iter(col)
        mine == SelectSeq([i \in 1..Len(items) |-> i], LAMBDA i : assignment[i] = worker)
    IN FromIterOptionIndex([j \in 1..Len(mine) |-> items[mine[j]]]).col

(* a column with its positions in another order *)
Reordered(col, perm) ==
    LET items == H3Iter(col)
    IN FromIterOptionIndex([i \in 1..Len(items) |-> items[perm[i]]]).col

Workers == 1..3
Groupings == { "left", "right", "twice" }

(* the maps of the three workers merged: (1 with 2) with 3, 1 with (2 with  *)
(* 3), or the first of these merged with itself                             *)
MergedAggregate(col, assignment, grouping, k, k_agg_method) ==
    LET m(w) == AggregateMap(PartOf(col, assignment, w), k, k_agg_method)
        left == MergeMaps(MergeMaps(m(1), m(2), k_agg_method), m(3), k_agg_method)
        right == MergeMaps(m(1), MergeMaps(m(2), m(3), k_agg_method), k_agg_method)
    IN CASE grouping = "left" -> left
         [] grouping = "right" -> right
         [] grouping = "twice" -> MergeMaps(left, left, k_agg_method)

----------------------------------------------------------------------------
(* Geometry of the indexes (h3o to_geom, LatLng::from) and of the query     *)
(* shapes (geo), on a plane with integer coordinates.  A cell is the convex *)
(* region within CellRadius of its centre in the |dx| + |dy| metric; a       *)
(* query polygon is an axis-parallel rectangle given by its exterior ring,  *)
(* or the polygon without any coordinate.                                   *)

Coord(x, y) == << x, y >>

(* where child digit d lies relative to its parent, in steps *)
DigitOffset(d) ==
    CASE d = 0 -> Coord(0, 0)
      [] d = 1 -> Coord(1, 0)
      [] d = 2 -> Coord(0, 1)
      [] d = 3 -> Coord(0 - 1, 1)
      [] d = 4 -> Coord(0 - 1, 0)
      [] d = 5 -> Coord(0, 0 - 1)
      [] OTHER -> Coord(1, 0 - 1)

CellRadius(c) == 2 * Pow(2, MaxRes - ResOf(c))
LevelStep(i) == 2 * Pow(3, MaxRes - i)

RECURSIVE CentreFrom(_, _)
CentreFrom(c, i) ==
    IF i > ResOf(c) THEN Coord(0, 0)
    ELSE LET o == DigitOffset(DigitOf(c, i))
             rest == CentreFrom(c, i + 1)
         IN Coord(o[1] * LevelStep(i) + rest[1], o[2] * LevelStep(i) + rest[2])

(* LatLng::from(cell): the centre of the cell the index belongs to *)
Centroid(v) == CentreFrom(v, 1)

(* Rect::new: min and max corner *)
Rect(x1, y1, x2, y2) ==
    [min |-> Coord(Min2(x1, x2), Min2(y1, y2)), max |-> Coord(Max2(x1, x2), Max2(y1, y2))]

(* index.to_geom(true): the boundary polygon of a cell, the line of a       *)
(* directed edge (the north-east side of its cell), the point of a vertex   *)
(* (the east corner of its cell)                                            *)
ToGeom(k, v) ==
    LET c == Centroid(v)
        r == CellRadius(v)
    IN CASE k = "CellIndex" -> [type |-> "Polygon", centre |-> c, radius |-> r]
         [] k = "DirectedEdgeIndex" ->
               [type |-> "Line", start |-> Coord(c[1] + r, c[2]), end |-> Coord(c[1], c[2] + r)]
         [] k = "VertexIndex" -> [type |-> "Point", at |-> Coord(c[1] + r, c[2])]

(* BoundingRect of the geometry of an index *)
GeomBoundingRect(g) ==
    CASE g.type = "Polygon" ->
            Rect(g.centre[1] - g.radius, g.centre[2] - g.radius,
                 g.centre[1] + g.radius, g.centre[2] + g.radius)
      [] g.type = "Line" -> Rect(g.start[1], g.start[2], g.end[1], g.end[2])
      [] g.type = "Point" -> Rect(g.at[1], g.at[2], g.at[1], g.at[2])

(* RectIndexable::spatial_index_rect *)
SpatialIndexRect(k, v) == Some(GeomBoundingRect(ToGeom(k, v)))

(* a query polygon: its exterior ring, closed as polygon! does *)
RectPolygon(x1, y1, x2, y2) ==
    [exterior |-> << Coord(x1, y1), Coord(x1, y2), Coord(x2, y2), Coord(x2, y1),
                     Coord(x1, y1) >>]
EmptyPolygon == [exterior |-> << >>]

SeqMin(f) == CHOOSE m \in Range(f) : \A x \in Range(f) : m <= x
SeqMax(f) == CHOOSE m \in Range(f) : \A x \in Range(f) : m >= x

(* Polygon::bounding_rect: None for the polygon without coordinates *)
PolygonBoundingRect(poly) ==
    IF poly.exterior = << >> THEN None
    ELSE LET xs == [i \in 1..Len(poly.exterior) |-> poly.exterior[i][1]]
             ys == [i \in 1..Len(poly.exterior) |-> poly.exterior[i][2]]
         IN Some(Rect(SeqMin(xs), SeqMin(ys), SeqMax(xs), SeqMax(ys)))

(* distance along one axis from the interval lo..hi to the value at *)
AxisGap(lo, hi, at) == IF at < lo THEN lo - at ELSE IF at > hi THEN at - hi ELSE 0

(* Polygon::intersects(&Coord): the coordinate lies in the polygon, its     *)
(* boundary included                                                        *)
PolygonIntersectsCoord(poly, c) ==
    LET br == PolygonBoundingRect(poly)
    IN /\ IsSome(br)
       /\ AxisGap(Unwrap(br).min[1], Unwrap(br).max[1], c[1]) = 0
       /\ AxisGap(Unwrap(br).min[2], Unwrap(br).max[2], c[2]) = 0

(* Polygon::intersects(&geometry): the two share a point, boundaries        *)
(* included                                                                 *)
PolygonIntersectsGeom(poly, g) ==
    LET br == PolygonBoundingRect(poly)
    IN IF ~IsSome(br) THEN FALSE
       ELSE LET lo == Unwrap(br).min
                hi == Unwrap(br).max
            IN CASE g.type = "Polygon" ->
                       AxisGap(lo[1], hi[1], g.centre[1])
                         + AxisGap(lo[2], hi[2], g.centre[2]) <= g.radius
                 [] g.type = "Line" ->
                       LET sum == g.start[1] + g.start[2]
                       IN Max2(Max2(lo[1], g.end[1]), sum - hi[2])
                            <= Min2(Min2(hi[1], g.start[1]), sum - lo[2])
                 [] g.type = "Point" -> PolygonIntersectsCoord(poly, g.at)

(* RectIndexable::intersects_with_polygon *)
IntersectsWithPolygon(k, v, poly) ==
    IF k = "CellIndex"
    THEN IF PolygonIntersectsCoord(poly, Centroid(v))
         THEN PolygonIntersectsGeom(poly, ToGeom(k, v))
         ELSE FALSE
    ELSE PolygonIntersectsGeom(poly, ToGeom(k, v))

----------------------------------------------------------------------------
(* SpatialIndex<IX>: the column and an R-tree of (rectangle, position)      *)
(* entries.  The tree is kept as the sequence of its entries; a lookup      *)
(* yields the matching entries, and what the queries do with one entry      *)
(* does not depend on the others.                                           *)

(* variant: both corners of the box are the lower corner of the rectangle *)
ToBBoxFromMin(rect) == [lower |-> rect.min, upper |-> rect.min]

(* fn to_bbox *)
ToBBox(rect) == [lower |-> rect.min, upper |-> rect.max]

(* variant: the entries end at the first position that has no rectangle     *)
RECURSIVE TreeEntriesUntilNone(_, _, _)
TreeEntriesUntilNone(k, items, pos) ==
    IF items = << >> THEN << >>
    ELSE IF ~IsSome(Head(items)) THEN << >>
    ELSE << [geom |-> ToBBox(Unwrap(SpatialIndexRect(k, Unwrap(Head(items))))),
             data |-> pos] >>
         \o TreeEntriesUntilNone(k, Tail(items), pos + 1)

(* the filter_map of From<H3Array<IX>>: one entry per valid position that   *)
(* has a rectangle, carrying the position in the column                     *)
RECURSIVE TreeEntries(_, _, _)
TreeEntries(k, items, pos) ==
    IF items = << >> THEN << >>
    ELSE LET rect == IF IsSome(Head(items)) THEN SpatialIndexRect(k, Unwrap(Head(items)))
                     ELSE None
         IN (IF IsSome(rect) THEN << [geom |-> ToBBox(Unwrap(rect)), data |-> pos] >>
             ELSE << >>)
            \o TreeEntries(k, Tail(items), pos + 1)

(* variant: the positions are counted after the null positions were dropped *)
SpatialIndexFromCountsValid(k, array) ==
    LET entries == TreeEntries(k, H3Iter(array), 0)
    IN [st |-> "ok", array |-> array,
        rtree |-> [i \in 1..Len(entries) |-> [geom |-> entries[i].geom, data |-> i - 1]]]

(* impl From<H3Array<IX>> for SpatialIndex<IX> *)
SpatialIndexFrom(k, array) ==
    [st |-> "ok", array |-> array, rtree |-> TreeEntries(k, H3Iter(array), 0)]

(* AABB::intersects: the boxes share a point, borders included *)
AABBIntersects(a, b) ==
    /\ a.lower[1] <= b.upper[1] /\ b.lower[1] <= a.upper[1]
    /\ a.lower[2] <= b.upper[2] /\ b.lower[2] <= a.upper[2]

(* RTree::locate_in_envelope_intersecting *)
LocateInEnvelopeIntersecting(rtree, envelope) ==
    SelectSeq(rtree, LAMBDA e : AABBIntersects(e.geom, envelope))

(* Rectangle::distance_2: squared distance from the point to the nearest    *)
(* point of the rectangle                                                   *)
Distance2(geom, point) ==
    LET dx == AxisGap(geom.lower[1], geom.upper[1], point[1])
        dy == AxisGap(geom.lower[2], geom.upper[2], point[2])
    IN dx * dx + dy * dy

(* RTree::locate_within_distance(query_point, max_squared_radius) *)
LocateWithinDistance(rtree, query_point, max_squared_radius) ==
    SelectSeq(rtree, LAMBDA e : Distance2(e.geom, query_point) <= max_squared_radius)

(* fn negative_mask; bit i of the mask is element i + 1 of the sequence *)
NegativeMask(size) == [i \in 1..size |-> FALSE]
MaskSet(m, pos, value) == [i \in 1..Len(m) |-> IF i = pos + 1 THEN value ELSE m[i]]
MaskGet(m, pos) == m[pos + 1]

(* the loop of intersect_impl over the located entries; poly is the polygon *)
(* of the detailed check, None for the check that is always true; tested    *)
(* collects the positions the detailed check was evaluated for              *)
RECURSIVE IntersectLoop(_, _, _, _, _, _)
IntersectLoop(k, array, located, m, tested, poly) ==
    IF located = << >> THEN [mask |-> m, tested |-> tested]
    ELSE LET pos == Head(located).data
             value == H3Get(array, pos)
         IN IF IsSome(value) /\ ~MaskGet(m, pos)
            THEN IF poly = None \/ IntersectsWithPolygon(k, Unwrap(value), Unwrap(poly))
                 THEN IntersectLoop(k, array, Tail(located), MaskSet(m, pos, TRUE),
                                    tested \cup { pos }, poly)
                 ELSE IntersectLoop(k, array, Tail(located), m, tested \cup { pos }, poly)
            ELSE IntersectLoop(k, array, Tail(located), m, tested, poly)

(* variant: the tree is asked for the entries lying inside the envelope *)
IntersectImplContained(k, self, rect, m, poly) ==
    LET locator == SelectSeq(self.rtree,
                      LAMBDA e : /\ rect.min[1] <= e.geom.lower[1]
                                 /\ e.geom.upper[1] <= rect.max[1]
                                 /\ rect.min[2] <= e.geom.lower[2]
                                 /\ e.geom.upper[2] <= rect.max[2])
    IN IntersectLoop(k, self.array, locator, m, { }, poly)

(* SpatialIndex::intersect_impl *)
IntersectImpl(k, self, rect, m, poly) ==
    LET envelope == [lower |-> rect.min, upper |-> rect.max]
        locator == LocateInEnvelopeIntersecting(self.rtree, envelope)
    IN IntersectLoop(k, self.array, locator, m, { }, poly)

(* variant: the entries whose box covers the envelope are marked, the      *)
(* containment test being asked the wrong way round                         *)
IntersectEnvelopesCovering(k, self, rect) ==
    LET locator == SelectSeq(self.rtree,
                      LAMBDA e : /\ e.geom.lower[1] <= rect.min[1]
                                 /\ rect.max[1] <= e.geom.upper[1]
                                 /\ e.geom.lower[2] <= rect.min[2]
                                 /\ rect.max[2] <= e.geom.upper[2])
    IN IntersectLoop(k, self.array, locator, NegativeMask(ColLen(self.array)), { }, None).mask

(* SpatialIndex::intersect_envelopes *)
IntersectEnvelopes(k, self, rect) ==
    IntersectImpl(k, self, rect, NegativeMask(ColLen(self.array)), None).mask

(* SpatialIndex::intersect_polygon *)
IntersectPolygon(k, self, poly) ==
    LET m == NegativeMask(ColLen(self.array))
        poly_rect == PolygonBoundingRect(poly)
    IN IF IsSome(poly_rect)
       THEN IntersectImpl(k, self, Unwrap(poly_rect), m, Some(poly)).mask
       ELSE m

(* variant: every polygon starts from a mask of its own *)
RECURSIVE MultipolygonLoopFreshMask(_, _, _, _, _)
MultipolygonLoopFreshMask(k, self, polys, m, steps) ==
    IF polys = << >> THEN [mask |-> m, steps |-> steps]
    ELSE LET poly_rect == PolygonBoundingRect(Head(polys))
             r == IF IsSome(poly_rect)
                  THEN IntersectImpl(k, self, Unwrap(poly_rect),
                                     NegativeMask(Len(m)), Some(Head(polys)))
                  ELSE [mask |-> m, tested |-> { }]
         IN MultipolygonLoopFreshMask(k, self, Tail(polys), r.mask, Append(steps, r))

(* the loop of intersect_multipolygon; steps records the mask and the       *)
(* positions tested after each polygon                                      *)
RECURSIVE MultipolygonLoop(_, _, _, _, _)
MultipolygonLoop(k, self, polys, m, steps) ==
    IF polys = << >> THEN [mask |-> m, steps |-> steps]
    ELSE LET poly_rect == PolygonBoundingRect(Head(polys))
             r == IF IsSome(poly_rect)
                  THEN IntersectImpl(k, self, Unwrap(poly_rect), m, Some(Head(polys)))
                  ELSE [mask |-> m, tested |-> { }]
         IN MultipolygonLoop(k, self, Tail(polys), r.mask, Append(steps, r))

(* SpatialIndex::intersect_multipolygon *)
IntersectMultipolygon(k, self, mpoly) ==
    MultipolygonLoop(k, self, mpoly, NegativeMask(ColLen(self.array)), << >>)

RECURSIVE SetLocated(_, _)
SetLocated(m, located) ==
    IF located = << >> THEN m
    ELSE SetLocated(MaskSet(m, Head(located).data, TRUE), Tail(located))

(* SpatialIndex::envelopes_within_distance: distance is handed to the tree  *)
(* as it is                                                                 *)
EnvelopesWithinDistance(self, coord, distance) ==
    SetLocated(NegativeMask(ColLen(self.array)),
               LocateWithinDistance(self.rtree, coord, distance))

----------------------------------------------------------------------------
(* Parsing indexes from strings (algorithm/utf8.rs, algorithm/parse.rs).    *)
(* A string is the sequence of its characters.                              *)

HexChars ==
    << "0", "1", "2", "3", "4", "5", "6", "7", "8", "9", "a", "b", "c", "d", "e", "f" >>
IsDigitOf(ch, base) == \E i \in 1..base : HexChars[i] = ch
CharValue(ch) == (CHOOSE i \in 1..Len(HexChars) : HexChars[i] = ch) - 1

RECURSIVE RadixValue(_, _)
RadixValue(s, base) ==
    IF s = << >> THEN 0
    ELSE RadixValue(SubSeq(s, 1, Len(s) - 1), base) * base + CharValue(s[Len(s)])

(* u64::from_str_radix: no value for the empty string or a foreign character *)
FromStrRadix(s, base) ==
    IF s = << >> \/ \E i \in 1..Len(s) : ~IsDigitOf(s[i], base) THEN None
    ELSE Some(RadixValue(s, base))

(* Display of an index ("{:x}") and of a u64 *)
RECURSIVE ToStrRadix(_, _)
ToStrRadix(n, base) ==
    IF n < base THEN << HexChars[n + 1] >>
    ELSE ToStrRadix(n \div base, base) \o << HexChars[(n % base) + 1] >>

(* IX::from_str: the hexadecimal word, validated *)
IndexFromStr(k, s) ==
    LET v == FromStrRadix(s, 16)
    IN IF IsSome(v) THEN TryFromU64(k, Unwrap(v)) ELSE None

(* Result<T, Error> *)
Ok(x) == [ok |-> TRUE, value |-> x, err |-> ""]
Err(e) == [ok |-> FALSE, value |-> 0, err |-> e]

(* take_while(is_whitespace) *)
RECURSIVE TakeWhitespace(_)
TakeWhitespace(s) ==
    IF s # << >> /\ Head(s) = " " THEN TakeWhitespace(Tail(s)) ELSE s

(* number of leading decimal digits of s, at most n *)
RECURSIVE LeadingDigits(_, _)
LeadingDigits(s, n) ==
    IF n = 0 \/ s = << >> THEN 0
    ELSE IF IsDigitOf(Head(s), 10) THEN 1 + LeadingDigits(Tail(s), n - 1) ELSE 0

(* the digits at the head of s read as a decimal number, and what follows   *)
(* them                                                                     *)
TakeDigits(s, n) ==
    IF n = 0 THEN None
    ELSE Some([value |-> RadixValue(SubSeq(s, 1, n), 10), rest |-> SubSeq(s, n + 1, Len(s))])
Negated(parsed) ==
    IF IsSome(parsed)
    THEN Some([value |-> 0 - Unwrap(parsed).value, rest |-> Unwrap(parsed).rest])
    ELSE None

(* nom double, for numbers written as an optional minus sign and digits *)
Double(s) ==
    IF s # << >> /\ Head(s) = "-"
    THEN Negated(TakeDigits(Tail(s), LeadingDigits(Tail(s), Len(s) - 1)))
    ELSE TakeDigits(s, LeadingDigits(s, Len(s)))

(* fn seperator *)
Seperator(s) ==
    IF s # << >> /\ Head(s) \in { ",", ";" }
    THEN Some([value |-> Head(s), rest |-> Tail(s)])
    ELSE None

(* fn u8_str: one or two digits *)
U8Str(s) == TakeDigits(s, LeadingDigits(s, 2))

(* one parser of parse_coordinate_and_resolution *)
RunParser(parser, s) ==
    CASE parser = "double" -> Double(s)
      [] parser = "seperator" -> Seperator(s)
      [] parser = "u8_str" -> U8Str(s)

(* the parsers of parse_coordinate_and_resolution one after the other, each *)
(* behind take_while(is_whitespace); ? returns at the first that fails      *)
RECURSIVE Sequenced(_, _, _)
RECURSIVE Continued(_, _, _)
Sequenced(parsers, s, values) ==
    IF parsers = << >> THEN Some([values |-> values, rest |-> s])
    ELSE Continued(Tail(parsers), values, RunParser(Head(parsers), TakeWhitespace(s)))
Continued(parsers, values, parsed) ==
    IF IsSome(parsed)
    THEN Sequenced(parsers, Unwrap(parsed).rest, Append(values, Unwrap(parsed).value))
    ELSE None

(* Ok((s, (Coord::from((x, y)), r))) *)
CoordAndResolution(parsed) ==
    IF IsSome(parsed)
    THEN Some([coord |-> Coord(Unwrap(parsed).values[1], Unwrap(parsed).values[3]),
               res |-> Unwrap(parsed).values[5]])
    ELSE None

(* fn parse_coordinate_and_resolution: x, y and the resolution, whatever    *)
(* follows the resolution being left unread                                 *)
ParseCoordinateAndResolution(s) ==
    CoordAndResolution(
        Sequenced(<< "double", "seperator", "double", "seperator", "u8_str" >>, s, << >>))

(* Resolution::try_from(u8) *)
ResolutionTryFrom(r) == IF r \in Resolutions THEN Some(r) ELSE None

(* LatLng::to_cell: the cell of the resolution whose centre is nearest *)
ToCell(lat, lng, r) ==
    LET cells == { c \in AllCells : ResOf(c) = r }
        d(c) == (Centroid(c)[1] - lng) * (Centroid(c)[1] - lng)
                  + (Centroid(c)[2] - lat) * (Centroid(c)[2] - lat)
    IN CHOOSE c \in cells : \A o \in cells : d(c) <= d(o)

(* fn parse_cell *)
ParseCell(s) ==
    LET cell == IndexFromStr("CellIndex", s)
        cell_int == FromStrRadix(s, 10)
        triple == ParseCoordinateAndResolution(s)
    IN IF IsSome(cell) THEN Ok(Unwrap(cell))
       ELSE IF IsSome(cell_int) /\ IsSome(TryFromU64("CellIndex", Unwrap(cell_int)))
       THEN Ok(Unwrap(cell_int))
       ELSE IF IsSome(triple)
       THEN LET res == ResolutionTryFrom(Unwrap(triple).res)
            IN IF IsSome(res)
               THEN Ok(ToCell(Unwrap(triple).coord[2], Unwrap(triple).coord[1], Unwrap(res)))
               ELSE Err("InvalidResolution")
       ELSE Err("NonParsableCellIndex")

(* fn parse_directededge, fn parse_vertex *)
ParseHexOrDecimal(k, s, e) ==
    LET ix == IndexFromStr(k, s)
        index_int == FromStrRadix(s, 10)
    IN IF IsSome(ix) THEN Ok(Unwrap(ix))
       ELSE IF IsSome(index_int) /\ IsSome(TryFromU64(k, Unwrap(index_int)))
       THEN Ok(Unwrap(index_int))
       ELSE Err(e)
ParseDirectedEdge(s) == ParseHexOrDecimal("DirectedEdgeIndex", s, "NonParsableDirectedEdgeIndex")
ParseVertex(s) == ParseHexOrDecimal("VertexIndex", s, "NonParsableVertexIndex")

(* the $conv of impl_parse_utf8array! for the three column types *)
ConvOf(k, s) ==
    CASE k = "CellIndex" -> ParseCell(s)
      [] k = "DirectedEdgeIndex" -> ParseDirectedEdge(s)
      [] k = "VertexIndex" -> ParseVertex(s)

----------------------------------------------------------------------------
(* Coordinates of the indexes (algorithm/coordinates.rs, array/to_geo.rs).  *)
(* The centre of a cell is counted in whole degrees; an f64 is kept exactly *)
(* as units + pi180 * (pi / 180), so that the degrees d and the radians of  *)
(* the same angle, d * (pi / 180), are different numbers unless d is 0.     *)

F64(units, pi180) == [units |-> units, pi180 |-> pi180]

(* LatLng::from(cell), LatLng::from(vertex) *)
LatLngFrom(k, v) ==
    LET c == IF k = "VertexIndex" THEN ToGeom(k, v).at ELSE Centroid(v)
    IN [lat |-> c[2], lng |-> c[1]]

(* LatLng::lat, ::lng (degrees) and ::lat_radians, ::lng_radians *)
Lat(ll) == F64(ll.lat, 0)
Lng(ll) == F64(ll.lng, 0)
LatRadians(ll) == F64(0, ll.lat)
LngRadians(ll) == F64(0, ll.lng)

(* the closures to_coordinates and to_coordinates_radians pass as setter *)
Setter(radians, ll, slot) ==
    IF radians THEN [lat |-> LatRadians(ll), lng |-> LngRadians(ll)]
    ELSE [lat |-> Lat(ll), lng |-> Lng(ll)]

(* fn to_coordinatearrays: the body of for_each for one position, then the  *)
(* two Float64Arrays with the validity of the column                        *)
CoordinateSlot(radians, item) ==
    LET zero == [lat |-> F64(0, 0), lng |-> F64(0, 0)]
    IN IF IsSome(item)
       THEN LET ll == LatLngFrom("CellIndex", Unwrap(item))
                set == Setter(radians, ll, zero)
                lat_set == [set EXCEPT !.lat = Lat(ll)]
            IN [lat_set EXCEPT !.lng = Lng(ll)]
       ELSE zero
ToCoordinateArrays(cellindexarray, radians) ==
    LET items == H3Iter(cellindexarray)
        n == ColLen(cellindexarray)
    IN [lat |-> [values |-> [i \in 1..n |-> CoordinateSlot(radians, items[i]).lat],
                 validity |-> cellindexarray.validity],
        lng |-> [values |-> [i \in 1..n |-> CoordinateSlot(radians, items[i]).lng],
                 validity |-> cellindexarray.validity]]

(* ToCoordinatesOp::to_coordinates and ::to_coordinates_radians *)
ToCoordinates(col) == ToCoordinateArrays(col, FALSE)
ToCoordinatesRadians(col) == ToCoordinateArrays(col, TRUE)

(* ToGeoPoints::to_geo_points (impl_to_geo_points!) *)
ToGeoPoints(k, col, use_degrees) ==
    MapValues(col,
        [cell \in ValidValues(col) |->
            LET ll == LatLngFrom(k, cell)
            IN Some(IF use_degrees THEN Coord(Lng(ll), Lng(ll))
                    ELSE Coord(LngRadians(ll), LatRadians(ll)))])

----------------------------------------------------------------------------
(* Cells of geometries (array/from_geo.rs).  A geometry is a point or a     *)
(* polygon; finite is FALSE when one of its coordinates is NaN or infinite. *)

PointGeometry(c, finite) == [type |-> "Point", at |-> c, finite |-> finite]
PolygonGeometry(poly, finite) == [type |-> "Polygon", polygon |-> poly, finite |-> finite]

(* ToCellsOptions *)
ToCellsOptions(resolution, compact, all_intersecting) ==
    [resolution |-> resolution, compact |-> compact, all_intersecting |-> all_intersecting]

CellsAt(resolution) == { c \in AllCells : ResOf(c) = resolution }

(* h3o::geom::{Geometry, Polygon, LineString}::from_degrees: refused unless *)
(* every coordinate is finite                                               *)
FromDegrees(geom) == IF geom.finite THEN Ok(geom) ELSE Err("InvalidGeometry")

(* h3o ToCells of a polygon: the cells whose centre lies in it *)
PolygonToCells(poly, resolution) ==
    { c \in CellsAt(resolution) : PolygonIntersectsCoord(poly, Centroid(c)) }

(* the rectangle inner lies in the interior of the rectangle outer *)
RectWithin(outer, inner) ==
    /\ outer.min[1] < inner.min[1] /\ inner.max[1] < outer.max[1]
    /\ outer.min[2] < inner.min[2] /\ inner.max[2] < outer.max[2]

(* the exterior ring of the polygon passes through the geometry: the two    *)
(* touch and the geometry does not lie within the interior of the polygon   *)
RingIntersectsGeom(poly, g) ==
    /\ PolygonIntersectsGeom(poly, g)
    /\ ~RectWithin(Unwrap(PolygonBoundingRect(poly)), GeomBoundingRect(g))

(* h3o ToCells of the exterior ring: the cells the ring passes through *)
RingToCells(poly, resolution) ==
    { c \in CellsAt(resolution) : RingIntersectsGeom(poly, ToGeom("CellIndex", c)) }

(* h3o ToCells of a point: the cell it lies in *)
PointToCells(at, resolution) == { ToCell(at[2], at[1], resolution) }

(* the loop of fill_including_intersecting: around the cells of the ring,   *)
(* the neighbours whose boundary intersects the polygon are added           *)
FillDisks(poly, cells, ring_cells) ==
    cells \cup
      { disk_cell \in UNION { Range(grid_disk(ring_cell, 1)) : ring_cell \in ring_cells } :
          disk_cell \notin cells /\ PolygonIntersectsGeom(poly, ToGeom("CellIndex", disk_cell)) }

(* fill_including_intersecting *)
FillIncludingIntersecting(poly, resolution) ==
    FillDisks(poly, PolygonToCells(poly, resolution), RingToCells(poly, resolution))

(* CellIndex::compact: complete sets of siblings are replaced by the parent *)
RECURSIVE Compact(_)
Compact(cells) ==
    LET full == { p \in AllCells :
                    /\ ResOf(p) < MaxRes
                    /\ Range(children(p, ResOf(p) + 1)) \subseteq cells }
    IN IF full = { } THEN cells
       ELSE Compact((cells \ UNION { Range(children(p, ResOf(p) + 1)) : p \in full })
                      \cup full)

(* the match of geometry_to_cells *)
GeometryCells(geom, options) ==
    IF geom.type = "Polygon" /\ options.all_intersecting
    THEN FillIncludingIntersecting(geom.polygon, options.resolution)
    ELSE IF geom.type = "Polygon"
    THEN PolygonToCells(geom.polygon, options.resolution)
    ELSE PointToCells(geom.at, options.resolution)

(* sort_unstable, dedup and, on request, compact *)
SortedCells(cells, compact) == Ascending(IF compact THEN Compact(cells) ELSE cells)

(* geometry_to_cells *)
GeometryToCellsOf(geom, options) ==
    IF FromDegrees(geom).ok
    THEN Ok(SortedCells(GeometryCells(geom, options), options.compact))
    ELSE Err(FromDegrees(geom).err)

----------------------------------------------------------------------------
(* Inputs of the operations *)

OptionsOf(S) == { None } \cup { Some(v) : v \in S }
RawVecs == SeqsUpTo(RawSamples, MaxLen)
OptionVecs == SeqsUpTo(OptionsOf(RawSamples), MaxLen)
NullFill == { BadDigitWord, CellAt(0) }
PrimitiveSlots ==
    { << v, TRUE >> : v \in RawSamples } \cup { << v, FALSE >> : v \in NullFill }
PrimitiveArrays ==
    { [values |-> [i \in 1..Len(s) |-> s[i][1]],
       validity |-> [i \in 1..Len(s) |-> s[i][2]]] : s \in SeqsUpTo(PrimitiveSlots, MaxLen) }
PushCells == { CellAt(0), CellAt(MaxRes) }
PushItems == SeqsUpTo(PushCells, MaxItems)

(* Arrow list arrays handed to the conversion: any offsets Arrow accepts    *)
(* (they may start above 0 and stop before the end of the values), any      *)
(* validity, 64-bit or 32-bit children                                      *)
ListChildValues == { PrimitiveFromVec(vs) : vs \in SeqsUpTo({ CellAt(0), ZeroWord }, MaxItems) }
GenericListArrays ==
    { l \in { [st |-> "ok", data_type |-> LargeListType(t), offsets |-> offs,
               values |-> vals, validity |-> bits] :
                 t \in { UInt64Type, UInt32Type },
                 vals \in ListChildValues,
                 offs \in { o \in UNION { [1..(m + 1) -> 0..MaxItems] : m \in 0..2 } :
                              OffsetsValid(o) },
                 bits \in UNION { [1..m -> BOOLEAN] : m \in 0..2 } } :
        ListTryNew(l.data_type, l.offsets, l.values, l.validity) = l }
IndexVecs(k) == SeqsUpTo(ValidSamples(k), MaxLen)
OptionIndexVecs(k) == SeqsUpTo(OptionsOf(ValidSamples(k)), MaxLen)


(* Indexes with a place on the plane, and the query shapes around them:     *)
(* two neighbouring cells at the finest resolution, an edge and a vertex    *)
CellWest == SetDigit(CellAt(MaxRes), MaxRes, 4)
CellEast == SetDigit(CellAt(MaxRes), MaxRes, 1)
LocatedSamples(k) ==
    CASE k = "CellIndex" -> { CellWest, CellEast }
      [] k = "DirectedEdgeIndex" -> { SetModeAux(CellWest, DirectedEdgeMode, 3) }
      [] k = "VertexIndex" -> { SetModeAux(CellEast, VertexMode, 2) }
LocatedVecs(k) == SeqsUpTo(OptionsOf(LocatedSamples(k)), MaxLen)
Origin == Centroid(CellAt(MaxRes - 1))
QueryXs == { Origin[1] + d : d \in { 0 - 3, 0 - 1, 1, 3 } }
QueryYs == { Origin[2] + d : d \in 0..3 }
QueryRects ==
    { Rect(x1, y1, x2, y2) : x1 \in QueryXs, x2 \in QueryXs, y1 \in QueryYs, y2 \in QueryYs }
QueryPolygons ==
    { RectPolygon(r.min[1], r.min[2], r.max[1], r.max[2]) :
        r \in { q \in QueryRects : q.min[1] < q.max[1] /\ q.min[2] < q.max[2] } }
      \cup { EmptyPolygon }
PartPolygons ==
    { RectPolygon(xs[1], Origin[2], xs[2], Origin[2] + 1) :
        xs \in { p \in QueryXs \X QueryXs : p[1] < p[2] } } \cup { EmptyPolygon }
MultiPolygons == SeqsUpTo(PartPolygons, 2)
QueryCoords == { Coord(x, y) : x \in QueryXs, y \in QueryYs }
QueryDistances == 0..3
KAggregationMethod == { "Min", "Max" }

(* Strings handed to the parsers: an index printed in hexadecimal (its      *)
(* Display form) and in decimal, "lng,lat,resolution" of a cell, the same   *)
(* with a resolution that does not exist, the hexadecimal form of an index  *)
(* of another kind, and a word that is no number                            *)
NumStr(n) == IF n < 0 THEN << "-" >> \o ToStrRadix(0 - n, 10) ELSE ToStrRadix(n, 10)
TripleStr(c, r) ==
    NumStr(Centroid(c)[1]) \o << "," >> \o NumStr(Centroid(c)[2]) \o << ",", " " >> \o NumStr(r)
SampleStrings(k) ==
    CASE k = "CellIndex" ->
            { ToStrRadix(CellEast, 16), ToStrRadix(CellAt(0), 10), TripleStr(CellWest, MaxRes),
              TripleStr(CellWest, 99), ToStrRadix(SampleEdge, 16), << "x" >> }
      [] k = "DirectedEdgeIndex" ->
            { ToStrRadix(SampleEdge, 16), ToStrRadix(SampleEdge, 10),
              ToStrRadix(CellAt(0), 16), << "x" >> }
      [] k = "VertexIndex" ->
            { ToStrRadix(SampleVertex, 16), ToStrRadix(SampleVertex, 10),
              ToStrRadix(CellAt(0), 16), << "x" >> }
Utf8Arrays(k) == SeqsUpTo(OptionsOf(SampleStrings(k)), MaxLen)

(* The parsers are evaluated once for every sample string; Conv looks the   *)
(* result up.                                                               *)
ConvTable == [k \in Kinds |-> [s \in SampleStrings(k) |-> ConvOf(k, s)]]
Conv(k, s) == IF s \in SampleStrings(k) THEN ConvTable[k][s] ELSE ConvOf(k, s)
parse_cell(s) == Conv("CellIndex", s)

ErrParse(e) == [st |-> "err", col |-> NoCol, err |-> e, errvalue |-> None]

(* collect::<Result<Vec<_>, Error>>()?: the first Err ends the call *)
CollectResults(results) ==
    LET bad == { i \in 1..Len(results) : ~results[i].ok }
    IN IF bad = { } THEN Ok([i \in 1..Len(results) |-> results[i].value])
       ELSE Err(results[CHOOSE i \in bad : \A j \in bad : i <= j].err)

(* variant: in the failing mode an unparsable string becomes a null too *)
ParseUtf8ArrayAlwaysTolerant(k, utf8array, set_failing_to_invalid) ==
    FromIterOptionIndex(
        [i \in 1..Len(utf8array) |->
            IF IsSome(utf8array[i]) /\ Conv(k, Unwrap(utf8array[i])).ok
            THEN Some(Conv(k, Unwrap(utf8array[i])).value)
            ELSE None])

(* ParseUtf8Array::parse_utf8array (impl_parse_utf8array!) *)
ParseUtf8Array(k, utf8array, set_failing_to_invalid) ==
    LET parsed(i) == Conv(k, Unwrap(utf8array[i]))
        h3indexes ==
            IF set_failing_to_invalid
            THEN CollectResults(
                    [i \in 1..Len(utf8array) |->
                        IF IsSome(utf8array[i])
                        THEN IF parsed(i).ok THEN Ok(Some(parsed(i).value)) ELSE Ok(None)
                        ELSE Ok(None)])
            ELSE CollectResults(
                    [i \in 1..Len(utf8array) |->
                        IF IsSome(utf8array[i])
                        THEN IF parsed(i).ok THEN Ok(Some(parsed(i).value))
                             ELSE Err(parsed(i).err)
                        ELSE Ok(None)])
    IN IF h3indexes.ok THEN FromIterOptionIndex(h3indexes.value) ELSE ErrParse(h3indexes.err)

(* ParseCellsOp::parse_cells *)
ParseCells(utf8array, set_failing_to_invalid) ==
    LET parsed(i) == parse_cell(Unwrap(utf8array[i]))
        cells ==
            CollectResults(
                [i \in 1..Len(utf8array) |->
                    IF IsSome(utf8array[i])
                    THEN IF parsed(i).ok THEN Ok(Some(parsed(i).value))
                         ELSE IF set_failing_to_invalid THEN Ok(None) ELSE Err(parsed(i).err)
                    ELSE Ok(None)])
    IN IF cells.ok THEN FromIterOptionIndex(cells.value) ELSE ErrParse(cells.err)

(* Geometries handed to the conversion: a point in the western cell, a      *)
(* polygon around both sample cells, a polygon around the eastern cell, a   *)
(* point with a coordinate that is not finite; every combination of the     *)
(* options at the finest resolution                                         *)
GeometrySamples ==
    { PointGeometry(Centroid(CellWest), TRUE),
      PolygonGeometry(RectPolygon(Origin[1] - 3, Origin[2], Origin[1] + 3, Origin[2] + 3), TRUE),
      PointGeometry(Centroid(CellEast), FALSE) }
GeometrySlices == SeqsUpTo(OptionsOf(GeometrySamples), MaxLen)
OptionSamples ==
    { ToCellsOptions(MaxRes, compact, all_intersecting) :
        compact \in BOOLEAN, all_intersecting \in BOOLEAN }

(* geometry_to_cells is evaluated once for every sample; the conversions    *)
(* look the result up                                                       *)
GeometryCellsTable ==
    [geom \in GeometrySamples |-> [options \in OptionSamples |->
        GeometryToCellsOf(geom, options)]]
geometry_to_cells(geom, options) ==
    IF geom \in GeometrySamples /\ options \in OptionSamples
    THEN GeometryCellsTable[geom][options]
    ELSE GeometryToCellsOf(geom, options)

(* to_cells: the cells of the geometry are appended to acc *)
ToCells(geom, options, acc) ==
    LET cells == geometry_to_cells(geom, options)
    IN IF cells.ok THEN Ok(acc \o cells.value) ELSE Err(cells.err)

(* the closure of try_fold: a None leaves acc as it is *)
FoldGeom(acc, geom, options) ==
    IF IsSome(geom) THEN ToCells(Unwrap(geom), options, acc) ELSE Ok(acc)

(* Iterator::try_fold: the first Err ends the fold *)
RECURSIVE TryFold(_, _, _)
TryFold(geoms, options, acc) ==
    IF geoms = << >> THEN Ok(acc)
    ELSE LET folded == FoldGeom(acc, Head(geoms), options)
         IN IF folded.ok THEN TryFold(Tail(geoms), options, folded.value)
            ELSE folded

ErrGeometry(e) == [st |-> "err", col |-> NoCol, err |-> e, errvalue |-> None]

(* cells.into(): the column of the cells, all valid *)
CellsInto(cells) ==
    IF cells.ok THEN OkArr(PrimitiveFromVec(cells.value)) ELSE ErrGeometry(cells.err)

(* IterToCellIndexArray::to_cellindexarray *)
ToCellIndexArray(geoms, options) == CellsInto(TryFold(geoms, options, << >>))

(* variant: the shorter vector is dropped *)
ReduceAppendKeepsLonger(a, b) == IF Len(a) > Len(b) THEN a ELSE b

(* the closure of try_reduce: the shorter vector is appended to the longer *)
ReduceAppend(a, b) == IF Len(a) > Len(b) THEN a \o b ELSE b \o a

(* try_reduce of two partial results: an Err wins *)
TryReduce(a, b) ==
    IF ~a.ok THEN a ELSE IF ~b.ok THEN b ELSE Ok(ReduceAppend(a.value, b.value))

(* the split of the parallel iterator into the pieces the workers fold,     *)
(* each starting from Vec::new                                              *)
Piece(todo) == [todo |-> todo, acc |-> Ok(<< >>)]
Split(geoms, cut1, cut2) ==
    << Piece(SubSeq(geoms, 1, cut1)), Piece(SubSeq(geoms, cut1 + 1, cut2)),
       Piece(SubSeq(geoms, cut2 + 1, Len(geoms))) >>

----------------------------------------------------------------------------
(* State *)

VARIABLES
    kind,     \* the index type IX of the column held in arr
    arr,      \* the H3Array under construction or use (NoArr before any)
    call,     \* the operation called last, with its arguments
    ret,      \* what the last column operation returned
    bld,      \* the H3ListArrayBuilder
    pushed,   \* what was pushed into it: Some(values) or None per push
    list,     \* the H3ListArray returned last
    dists,    \* the distances list returned with it (grid_disk_distances)
    subs,     \* what iter_arrays yielded
    flat,     \* what into_flattened returned
    sidx,     \* the SpatialIndex built from arr
    mask,     \* what the last spatial query returned
    agg,      \* what grid_disk_aggregate_k returned
    mapped,   \* what the last one-to-one operation returned
    par       \* the parallel conversion of geometries in progress

vars == << kind, arr, call, ret, bld, pushed, list, dists, subs, flat,
           sidx, mask, agg, mapped, par >>

Call(op, input, p, q) == [op |-> op, input |-> input, p |-> p, q |-> q]
NoRet == [st |-> "none", after |-> NoCol, before |-> NoCol, items |-> << >>]
NoFlat == NoArr
NoSubs == [st |-> "none", items |-> << >>]

NoIndex == [st |-> "none", array |-> NoCol, rtree |-> << >>]
NoMask == [st |-> "none", bits |-> << >>, steps |-> << >>]
NoAgg == [st |-> "none", cells |-> NoCol, distances |-> NoCol]
NoMapped == [st |-> "none", col |-> NoCol]
NoPar == [st |-> "none", pieces |-> << >>]

NoListResults == list' = NoList /\ dists' = NoList /\ subs' = NoSubs /\ flat' = NoFlat

----------------------------------------------------------------------------
(* Constructors of H3Array<IX> *)

(* A behaviour follows one column from its construction on: a constructor  *)
(* reads no earlier state, so it is taken once, from the initial state.     *)
Fresh == arr.st = "none" /\ bld = EmptyBuilder /\ list.st = "none" /\ par.st = "none"

Construct(k, op, input, result) ==
    /\ kind' = k
    /\ arr' = result
    /\ call' = Call(op, input, 0, 0)
    /\ ret' = NoRet
    /\ NoListResults
    /\ UNCHANGED << bld, pushed >>
    /\ UNCHANGED << sidx, mask, agg, mapped, par >>

DoTryFromVec ==
    /\ Fresh
    /\ \E k \in Kinds : \E vs \in RawVecs :
          Construct(k, "try_from_vec", vs, TryFromVec(k, vs))

DoTryFromPrimitiveArray ==
    /\ Fresh
    /\ \E k \in Kinds : \E pa \in PrimitiveArrays :
          Construct(k, "try_from_primitive_array", pa, TryFromPrimitiveArray(k, pa))

DoFromVecIndex ==
    /\ Fresh
    /\ \E k \in Kinds : \E ixs \in IndexVecs(k) :
          Construct(k, "from_vec_index", ixs, FromIterIndex(ixs))

DoFromVecOptionIndex ==
    /\ Fresh
    /\ \E k \in Kinds : \E oixs \in OptionIndexVecs(k) :
          Construct(k, "from_vec_option_index", oixs, FromIterOptionIndex(oixs))

DoFromIterWithValidityU64 ==
    /\ Fresh
    /\ \E k \in Kinds : \E vs \in RawVecs :
          Construct(k, "from_iter_with_validity_u64", vs, FromIterWithValidityU64(k, vs))

DoFromIterWithValidityOption ==
    /\ Fresh
    /\ \E k \in Kinds : \E opts \in OptionVecs :
          Construct(k, "from_iter_with_validity_option", opts,
                  FromIterWithValidityOption(k, opts))

DoFromWithValidityVec ==
    /\ Fresh
    /\ \E k \in Kinds : \E vs \in RawVecs :
          Construct(k, "from_with_validity_vec", vs, FromWithValidityVec(k, vs))

DoFromWithValidityVecOption ==
    /\ Fresh
    /\ \E k \in Kinds : \E opts \in OptionVecs :
          Construct(k, "from_with_validity_vec_option", opts,
                  FromWithValidityVecOption(k, opts))

DoFromWithValidityPrimitiveArray ==
    /\ Fresh
    /\ \E k \in Kinds : \E pa \in PrimitiveArrays :
          Construct(k, "from_with_validity_primitive_array", pa,
                  FromWithValidityPrimitiveArray(k, pa))

----------------------------------------------------------------------------
(* Reading and slicing a column *)

(* H3Array::slice(&mut self, offset, length); arrow2 panics when the range  *)
(* leaves the array                                                         *)
DoSlice ==
    /\ arr.st = "ok"
    /\ \E offset \in 0..ColLen(arr.col) : \E length \in 0..(ColLen(arr.col) - offset) :
          /\ arr' = OkArr(H3Slice(arr.col, offset, length))
          /\ call' = Call("slice", << >>, offset, length)
    /\ ret' = NoRet
    /\ NoListResults
    /\ UNCHANGED << kind, bld, pushed >>
    /\ UNCHANGED << sidx, mask, agg, mapped, par >>

(* H3Array::iter(&self) *)
DoIter ==
    /\ arr.st = "ok"
    /\ call' = Call("iter", << >>, 0, 0)
    /\ ret' = [NoRet EXCEPT !.st = "ok", !.items = H3Iter(arr.col)]
    /\ NoListResults
    /\ UNCHANGED << kind, arr, bld, pushed >>
    /\ UNCHANGED << sidx, mask, agg, mapped, par >>

(* H3Array::get(self, i); panics iff i >= self.len() *)
DoGet ==
    /\ arr.st = "ok"
    /\ \E i \in 0..(ColLen(arr.col) - 1) :
          /\ call' = Call("get", << >>, i, 0)
          /\ ret' = [NoRet EXCEPT !.st = "ok", !.items = << H3Get(arr.col, i) >>]
    /\ NoListResults
    /\ UNCHANGED << kind, arr, bld, pushed >>
    /\ UNCHANGED << sidx, mask, agg, mapped, par >>

----------------------------------------------------------------------------
(* Algorithms on a cell column *)

IsCellColumn == arr.st = "ok" /\ kind = "CellIndex"

DoChangeResolution ==
    /\ IsCellColumn
    /\ \E resolution \in Resolutions :
          /\ call' = Call("change_resolution", << >>, resolution, 0)
          /\ ret' = [NoRet EXCEPT !.st = "ok",
                                  !.after = ChangeResolution(arr.col, resolution)]
    /\ NoListResults
    /\ UNCHANGED << kind, arr, bld, pushed >>
    /\ UNCHANGED << sidx, mask, agg, mapped, par >>

DoChangeResolutionPaired ==
    /\ IsCellColumn
    /\ \E resolution \in Resolutions :
          /\ call' = Call("change_resolution_paired", << >>, resolution, 0)
          /\ LET pair == ChangeResolutionPaired(arr.col, resolution)
             IN ret' = [NoRet EXCEPT !.st = "ok", !.before = pair.before,
                                                 !.after = pair.after]
    /\ NoListResults
    /\ UNCHANGED << kind, arr, bld, pushed >>
    /\ UNCHANGED << sidx, mask, agg, mapped, par >>

DoChildren ==
    /\ IsCellColumn
    /\ \E resolution \in Resolutions :
          /\ call' = Call("children", << >>, resolution, 0)
          /\ list' = Children(arr.col, resolution)
    /\ ret' = NoRet /\ dists' = NoList /\ subs' = NoSubs /\ flat' = NoFlat
    /\ UNCHANGED << kind, arr, bld, pushed >>
    /\ UNCHANGED << sidx, mask, agg, mapped, par >>

DoGridDisk ==
    /\ IsCellColumn
    /\ \E k \in 0..MaxK :
          /\ call' = Call("grid_disk", << >>, k, 0)
          /\ list' = GridDisk(arr.col, k)
    /\ ret' = NoRet /\ dists' = NoList /\ subs' = NoSubs /\ flat' = NoFlat
    /\ UNCHANGED << kind, arr, bld, pushed >>
    /\ UNCHANGED << sidx, mask, agg, mapped, par >>

DoGridDiskDistances ==
    /\ IsCellColumn
    /\ \E k \in 0..MaxK :
          /\ call' = Call("grid_disk_distances", << >>, k, 0)
          /\ LET gdd == GridDiskDistances(arr.col, k)
             IN list' = gdd.cells /\ dists' = gdd.distances
    /\ ret' = NoRet /\ subs' = NoSubs /\ flat' = NoFlat
    /\ UNCHANGED << kind, arr, bld, pushed >>
    /\ UNCHANGED << sidx, mask, agg, mapped, par >>

DoGridRingDistances ==
    /\ IsCellColumn
    /\ \E k_min \in 0..(MaxK + 1) : \E k_max \in 0..MaxK :
          /\ call' = Call("grid_ring_distances", << >>, k_min, k_max)
          /\ LET gdd == GridRingDistances(arr.col, k_min, k_max)
             IN list' = gdd.cells /\ dists' = gdd.distances
    /\ ret' = NoRet /\ subs' = NoSubs /\ flat' = NoFlat
    /\ UNCHANGED << kind, arr, bld, pushed >>
    /\ UNCHANGED << sidx, mask, agg, mapped, par >>

----------------------------------------------------------------------------
(* The list builder.  A behaviour that builds a list by hand does so from   *)
(* the initial state, before any column exists.                             *)

BuilderInUse == bld.st = "live" /\ arr.st = "none" /\ list.st = "none"

DoPushValid ==
    /\ BuilderInUse
    /\ Len(bld.list_validity) < MaxPush
    /\ \E it \in PushItems :
          /\ bld' = PushValid(bld, it)
          /\ pushed' = Append(pushed, Some(it))
          /\ call' = Call("push_valid", it, 0, 0)
    /\ UNCHANGED << kind, arr, ret, list, dists, subs, flat >>
    /\ UNCHANGED << sidx, mask, agg, mapped, par >>

DoPushInvalid ==
    /\ BuilderInUse
    /\ Len(bld.list_validity) < MaxPush
    /\ bld' = PushInvalid(bld)
    /\ pushed' = Append(pushed, None)
    /\ call' = Call("push_invalid", << >>, 0, 0)
    /\ UNCHANGED << kind, arr, ret, list, dists, subs, flat >>
    /\ UNCHANGED << sidx, mask, agg, mapped, par >>

(* H3ListArrayBuilder::build(self) *)
DoBuild ==
    /\ BuilderInUse
    /\ list' = BuilderBuild(bld)
    /\ bld' = MovedBuilder
    /\ call' = Call("build", bld, 0, 0)
    /\ UNCHANGED << kind, arr, ret, pushed, dists, subs, flat >>
    /\ UNCHANGED << sidx, mask, agg, mapped, par >>

(* H3ListArray::try_from(GenericListArray) *)
DoTryFromGenericListArray ==
    /\ Fresh
    /\ \E value \in GenericListArrays :
          /\ list' = TryFromGenericListArray(kind, value)
          /\ call' = Call("try_from_generic_list_array", value, 0, 0)
    /\ UNCHANGED << kind, arr, ret, bld, pushed, dists, subs, flat >>
    /\ UNCHANGED << sidx, mask, agg, mapped, par >>

----------------------------------------------------------------------------
(* Reading a list *)

(* H3ListArray::iter_arrays(&self), collected *)
DoIterArrays ==
    /\ list.st = "ok"
    /\ subs' = [st |-> "ok", items |-> IterArrays(kind, list)]
    /\ call' = Call("iter_arrays", << >>, 0, 0)
    /\ UNCHANGED << kind, arr, ret, bld, pushed, list, dists, flat >>
    /\ UNCHANGED << sidx, mask, agg, mapped, par >>

(* H3ListArray::into_flattened(self) *)
DoIntoFlattened ==
    /\ list.st = "ok"
    /\ flat' = IntoFlattened(kind, list)
    /\ list' = [list EXCEPT !.st = "moved"]
    /\ call' = Call("into_flattened", << >>, 0, 0)
    /\ UNCHANGED << kind, arr, ret, bld, pushed, dists, subs >>
    /\ UNCHANGED << sidx, mask, agg, mapped, par >>

----------------------------------------------------------------------------
(* The spatial index and its queries *)

DoFromVecOptionLocated ==
    /\ Fresh
    /\ \E k \in Kinds : \E opts \in LocatedVecs(k) :
          Construct(k, "from_vec_option_index", opts, FromIterOptionIndex(opts))

(* H3Array::spatial_index *)
DoSpatialIndex ==
    /\ arr.st = "ok"
    /\ sidx.st = "none"
    /\ sidx' = SpatialIndexFrom(kind, arr.col)
    /\ call' = Call("spatial_index", << >>, 0, 0)
    /\ mask' = NoMask
    /\ UNCHANGED << kind, arr, ret, bld, pushed, list, dists, subs, flat, agg, mapped, par >>

(* A query reads the index and leaves it as it was, so a behaviour follows  *)
(* one query on the index.                                                  *)
Indexed == sidx.st = "ok" /\ mask.st = "none"

Query(op, input, p, bits, steps) ==
    /\ call' = Call(op, input, p, 0)
    /\ mask' = [st |-> "ok", bits |-> bits, steps |-> steps]
    /\ UNCHANGED << kind, arr, ret, bld, pushed, list, dists, subs, flat, sidx, agg, mapped, par >>

DoIntersectEnvelopes ==
    /\ Indexed
    /\ \E rect \in QueryRects :
          Query("intersect_envelopes", rect, 0, IntersectEnvelopes(kind, sidx, rect), << >>)

DoIntersectPolygon ==
    /\ Indexed
    /\ \E poly \in QueryPolygons :
          Query("intersect_polygon", poly, 0, IntersectPolygon(kind, sidx, poly), << >>)

DoIntersectMultipolygon ==
    /\ Indexed
    /\ \E mpoly \in MultiPolygons :
          LET r == IntersectMultipolygon(kind, sidx, mpoly)
          IN Query("intersect_multipolygon", mpoly, 0, r.mask, r.steps)

DoEnvelopesWithinDistance ==
    /\ Indexed
    /\ \E coord \in QueryCoords : \E distance \in QueryDistances :
          Query("envelopes_within_distance", coord, distance,
                EnvelopesWithinDistance(sidx, coord, distance), << >>)

(* the query rectangles that contain rect, rect itself among them *)
EnlargedRects(rect) ==
    { r \in QueryRects : /\ r.min[1] <= rect.min[1] /\ rect.max[1] <= r.max[1]
                         /\ r.min[2] <= rect.min[2] /\ rect.max[2] <= r.max[2] }

(* intersect_envelopes called a second time on the same index, with the     *)
(* same or a larger rectangle; the first call and its mask are kept in      *)
(* mask.steps                                                               *)
DoIntersectEnvelopesAgain ==
    /\ sidx.st = "ok"
    /\ mask.st = "ok"
    /\ call.op = "intersect_envelopes"
    /\ call.q = 0
    /\ \E rect \in EnlargedRects(call.input) :
          /\ call' = Call("intersect_envelopes", rect, 0, 1)
          /\ mask' = [st |-> "ok", bits |-> IntersectEnvelopes(kind, sidx, rect),
                      steps |-> << [input |-> call.input, mask |-> mask.bits] >>]
    /\ UNCHANGED << kind, arr, ret, bld, pushed, list, dists, subs, flat, sidx, agg, mapped, par >>

----------------------------------------------------------------------------
(* The one-to-one operations *)

Mapped(op, p, col) ==
    /\ call' = Call(op, << >>, p, 0)
    /\ mapped' = [st |-> "ok", col |-> col]
    /\ UNCHANGED << kind, arr, ret, bld, pushed, list, dists, subs, flat, sidx, mask, agg, par >>

DoResolution ==
    /\ IsCellColumn
    /\ Mapped("resolution", 0, Resolution(arr.col))

DoParent ==
    /\ IsCellColumn
    /\ \E resolution \in Resolutions : Mapped("parent", resolution, Parent(arr.col, resolution))

DoChildrenCount ==
    /\ IsCellColumn
    /\ \E resolution \in Resolutions :
          Mapped("children_count", resolution, ChildrenCount(arr.col, resolution))

DoOwner ==
    /\ arr.st = "ok" /\ kind = "VertexIndex"
    /\ Mapped("owner", 0, Owner(arr.col))

DoOrigin ==
    /\ arr.st = "ok" /\ kind = "DirectedEdgeIndex"
    /\ Mapped("origin", 0, EdgeOrigins(arr.col))

DoDestination ==
    /\ arr.st = "ok" /\ kind = "DirectedEdgeIndex"
    /\ Mapped("destination", 0, EdgeDestinations(arr.col))

----------------------------------------------------------------------------
(* Aggregating the disks of a column *)

DoGridDiskAggregateK ==
    /\ IsCellColumn
    /\ \E k \in 0..MaxK : \E k_agg_method \in KAggregationMethod :
          LET cellmap == AggregateMap(arr.col, k, k_agg_method)
          IN \E order \in IterationOrders(DOMAIN cellmap) :
                /\ call' = Call("grid_disk_aggregate_k", k_agg_method, k, 0)
                /\ agg' = GridDiskAggregateK(cellmap, order)
    /\ UNCHANGED << kind, arr, ret, bld, pushed, list, dists, subs, flat,
                    sidx, mask, mapped, par >>

(* grid_disk_aggregate_k on the column with its positions reordered; the    *)
(* result is kept with its cells in ascending order                         *)
DoAggregateReordered ==
    /\ IsCellColumn
    /\ agg.st = "none"
    /\ \E k \in 0..MaxK : \E k_agg_method \in KAggregationMethod :
       \E perm \in Permutations(1..ColLen(arr.col)) :
          LET cellmap == AggregateMap(Reordered(arr.col, perm), k, k_agg_method)
          IN /\ call' = Call("aggregate_reordered", k_agg_method, k, perm)
             /\ agg' = GridDiskAggregateK(cellmap, Ascending(DOMAIN cellmap))
    /\ UNCHANGED << kind, arr, ret, bld, pushed, list, dists, subs, flat,
                    sidx, mask, mapped, par >>

(* grid_disk_aggregate_k on the parts of the column given to three workers, *)
(* and the merge of their maps                                              *)
DoAggregateParts ==
    /\ IsCellColumn
    /\ agg.st = "none"
    /\ \E k \in 0..MaxK : \E k_agg_method \in KAggregationMethod :
       \E assignment \in [1..ColLen(arr.col) -> Workers] : \E grouping \in Groupings :
          LET cellmap == MergedAggregate(arr.col, assignment, grouping, k, k_agg_method)
          IN /\ call' = Call("aggregate_parts", k_agg_method, k, << assignment, grouping >>)
             /\ agg' = GridDiskAggregateK(cellmap, Ascending(DOMAIN cellmap))
    /\ UNCHANGED << kind, arr, ret, bld, pushed, list, dists, subs, flat,
                    sidx, mask, mapped, par >>

----------------------------------------------------------------------------
(* Parsing a string array into a column; call.p is 1 when                   *)
(* set_failing_to_invalid is true, 0 when it is false                       *)

Parsed(k, op, input, flag, result) ==
    /\ kind' = k
    /\ arr' = result
    /\ call' = Call(op, input, IF flag THEN 1 ELSE 0, 0)
    /\ ret' = NoRet
    /\ NoListResults
    /\ UNCHANGED << bld, pushed >>
    /\ UNCHANGED << sidx, mask, agg, mapped, par >>

DoParseUtf8Array ==
    /\ Fresh
    /\ \E k \in Kinds : \E utf8array \in Utf8Arrays(k) : \E flag \in BOOLEAN :
          Parsed(k, "parse_utf8array", utf8array, flag, ParseUtf8Array(k, utf8array, flag))

DoParseCells ==
    /\ Fresh
    /\ \E utf8array \in Utf8Arrays("CellIndex") : \E flag \in BOOLEAN :
          Parsed("CellIndex", "parse_cells", utf8array, flag, ParseCells(utf8array, flag))

----------------------------------------------------------------------------
(* The coordinates of a column; for to_geo_points call.p is 1 when          *)
(* use_degrees is true                                                      *)

DoToCoordinates ==
    /\ IsCellColumn
    /\ Mapped("to_coordinates", 0, ToCoordinates(arr.col))

DoToCoordinatesRadians ==
    /\ IsCellColumn
    /\ Mapped("to_coordinates_radians", 0, ToCoordinatesRadians(arr.col))

DoToGeoPoints ==
    /\ arr.st = "ok"
    /\ kind \in { "CellIndex", "VertexIndex" }
    /\ \E use_degrees \in BOOLEAN :
          Mapped("to_geo_points", IF use_degrees THEN 1 ELSE 0,
                 ToGeoPoints(kind, arr.col, use_degrees))

----------------------------------------------------------------------------
(* The conversion of geometries to one cell column *)

(* IterToCellIndexArray::to_cellindexarray *)
DoToCellIndexArray ==
    /\ Fresh
    /\ \E geoms \in GeometrySlices : \E options \in OptionSamples :
          /\ arr' = ToCellIndexArray(geoms, options)
          /\ call' = Call("to_cellindexarray", geoms, options, 0)
    /\ UNCHANGED << kind, ret, bld, pushed, list, dists, subs, flat,
                    sidx, mask, agg, mapped, par >>

(* ParIterToCellIndexArray::par_to_cellindexarray is called: the input is   *)
(* split among the workers                                                  *)
DoParToCellIndexArray ==
    /\ Fresh
    /\ \E geoms \in GeometrySlices : \E options \in OptionSamples :
       \E cut2 \in 0..Len(geoms) : \E cut1 \in 0..cut2 :
          /\ par' = [st |-> "running", pieces |-> Split(geoms, cut1, cut2)]
          /\ call' = Call("par_to_cellindexarray", geoms, options, << cut1, cut2 >>)
    /\ UNCHANGED << kind, arr, ret, bld, pushed, list, dists, subs, flat,
                    sidx, mask, agg, mapped >>

(* a worker is through with its piece: nothing is left of it, its fold      *)
(* returned an Err, or an Err of another piece stopped it                   *)
Folded(i) ==
    \/ par.pieces[i].todo = << >>
    \/ \E j \in 1..Len(par.pieces) : ~par.pieces[j].acc.ok

(* try_fold, one geometry of one worker *)
DoParFold ==
    /\ par.st = "running"
    /\ \E i \in 1..Len(par.pieces) :
          /\ par.pieces[i].todo # << >>
          /\ par.pieces[i].acc.ok
          /\ par' = [par EXCEPT
                       !.pieces[i].acc = FoldGeom(par.pieces[i].acc.value,
                                                  Head(par.pieces[i].todo), call.p),
                       !.pieces[i].todo = Tail(par.pieces[i].todo)]
    /\ UNCHANGED << kind, arr, call, ret, bld, pushed, list, dists, subs, flat,
                    sidx, mask, agg, mapped >>

(* try_reduce, two neighbouring partial results *)
DoParReduce ==
    /\ par.st = "running"
    /\ \E i \in 1..(Len(par.pieces) - 1) :
          /\ Folded(i) /\ Folded(i + 1)
          /\ par' = [par EXCEPT !.pieces =
                       SubSeq(par.pieces, 1, i - 1)
                         \o << [todo |-> << >>,
                                acc |-> TryReduce(par.pieces[i].acc, par.pieces[i + 1].acc)] >>
                         \o SubSeq(par.pieces, i + 2, Len(par.pieces))]
    /\ UNCHANGED << kind, arr, call, ret, bld, pushed, list, dists, subs, flat,
                    sidx, mask, agg, mapped >>

(* the last result: ? and cells.into() *)
DoParCollect ==
    /\ par.st = "running"
    /\ Len(par.pieces) = 1
    /\ Folded(1)
    /\ arr' = CellsInto(par.pieces[1].acc)
    /\ par' = [par EXCEPT !.st = "done"]
    /\ UNCHANGED << kind, call, ret, bld, pushed, list, dists, subs, flat,
                    sidx, mask, agg, mapped >>

----------------------------------------------------------------------------

Init ==
    /\ kind = "CellIndex"
    /\ arr = NoArr
    /\ call = Call("new", << >>, 0, 0)
    /\ ret = NoRet
    /\ bld = EmptyBuilder
    /\ pushed = << >>
    /\ list = NoList
    /\ dists = NoList
    /\ subs = NoSubs
    /\ flat = NoFlat
    /\ sidx = NoIndex
    /\ mask = NoMask
    /\ agg = NoAgg
    /\ mapped = NoMapped
    /\ par = NoPar

(* constructing, slicing and reading a column *)
NextArray ==
    \/ DoTryFromVec
    \/ DoTryFromPrimitiveArray
    \/ DoFromVecIndex
    \/ DoFromVecOptionIndex
    \/ DoFromIterWithValidityU64
    \/ DoFromIterWithValidityOption
    \/ DoFromWithValidityVec
    \/ DoFromWithValidityVecOption
    \/ DoFromWithValidityPrimitiveArray
    \/ DoSlice
    \/ DoIter
    \/ DoGet

(* the algorithms, on the columns two of the constructors give *)
NextGrid ==
    \/ DoFromVecOptionIndex
    \/ DoTryFromPrimitiveArray
    \/ DoSlice
    \/ DoChangeResolution
    \/ DoChangeResolutionPaired
    \/ DoChildren
    \/ DoGridDisk
    \/ DoGridDiskDistances
    \/ DoGridRingDistances

(* building a list by hand, converting one, reading one *)
NextList ==
    \/ DoPushValid
    \/ DoPushInvalid
    \/ DoBuild
    \/ DoTryFromGenericListArray
    \/ DoIterArrays
    \/ DoIntoFlattened

(* indexing a column on the plane and querying the index *)
NextSpatial ==
    \/ DoFromVecOptionLocated
    \/ DoSpatialIndex
    \/ DoIntersectEnvelopes
    \/ DoIntersectPolygon
    \/ DoIntersectMultipolygon
    \/ DoEnvelopesWithinDistance

(* aggregating the disks of neighbouring cells *)
NextAggregate ==
    \/ DoFromVecOptionLocated
    \/ DoGridDiskAggregateK

(* mapping a column position by position *)
NextMap ==
    \/ DoFromVecOptionIndex
    \/ DoTryFromPrimitiveArray
    \/ DoResolution
    \/ DoParent
    \/ DoChildrenCount
    \/ DoOwner
    \/ DoOrigin
    \/ DoDestination

(* asking the index for envelopes twice *)
NextEnvelopes ==
    \/ DoFromVecOptionLocated
    \/ DoSpatialIndex
    \/ DoIntersectEnvelopes
    \/ DoIntersectEnvelopesAgain

(* aggregating reordered and partitioned columns *)
NextMerge ==
    \/ DoFromVecOptionLocated
    \/ DoAggregateReordered
    \/ DoAggregateParts

(* geometries to one cell column, in sequence and in parallel *)
NextToCells ==
    \/ DoToCellIndexArray
    \/ DoParToCellIndexArray
    \/ DoParFold
    \/ DoParReduce
    \/ DoParCollect

(* the coordinates of a column *)
NextCoordinates ==
    \/ DoFromVecOptionIndex
    \/ DoToCoordinates
    \/ DoToCoordinatesRadians
    \/ DoToGeoPoints

(* parsing string arrays *)
NextParse ==
    \/ DoParseUtf8Array
    \/ DoParseCells

Next ==
    \/ NextArray \/ NextGrid \/ NextList \/ NextSpatial \/ NextAggregate \/ NextMap
    \/ NextEnvelopes \/ NextParse \/ NextCoordinates \/ NextMerge \/ NextToCells

(* every operation *)
Spec == Init /\ [][Next]_vars

(* the column alone *)
SpecArray == Init /\ [][NextArray]_vars

(* the algorithms and the lists *)
SpecGrid == Init /\ [][NextGrid \/ NextList]_vars

(* the spatial index *)
SpecSpatial == Init /\ [][NextSpatial]_vars

(* the spatial index asked for envelopes twice *)
SpecEnvelopes == Init /\ [][NextEnvelopes]_vars

(* the coordinates *)
SpecCoordinates == Init /\ [][NextCoordinates]_vars

(* the aggregation of reordered and partitioned columns *)
SpecMerge == Init /\ [][NextMerge]_vars

(* the conversion of geometries *)
SpecToCells == Init /\ [][NextToCells]_vars

(* the parsers *)
SpecParse == Init /\ [][NextParse]_vars

(* the one-to-one operations *)
SpecMap == Init /\ [][NextMap]_vars

(* the aggregation of disks *)
SpecAggregate == Init /\ [][NextAggregate]_vars

----------------------------------------------------------------------------
(* Properties of the column constructors *)

(* C1: strict construction from a vector of words succeeds exactly when     *)
(* every word is a valid index of the column's kind; on failure there is an *)
(* error and no column, not even the valid prefix; on success the column    *)
(* has the input's length, no null, and position i reads back input[i].     *)
C1_StrictFromVec ==
    call.op = "try_from_vec" =>
        /\ arr.st = "ok" <=> \A i \in 1..Len(call.input) : IsValidIndex(kind, call.input[i])
        /\ arr.st # "ok" => arr.st = "err" /\ arr.col = NoCol
        /\ arr.st = "ok" =>
              /\ ColLen(arr.col) = Len(call.input)
              /\ NullCount(arr.col) = 0
              /\ \A i \in 1..Len(call.input) : H3Get(arr.col, i - 1) = Some(call.input[i])

(* a vector with a valid first word and an invalid later one was rejected *)
C1_Witness ==
    /\ call.op = "try_from_vec"
    /\ arr.st = "err"
    /\ Len(call.input) >= 2
    /\ IsValidIndex(kind, call.input[1])

(* C2: in every column any constructor gives, after any slicing, a position *)
(* marked valid holds a valid index of the column's kind; iter and get give *)
(* None at every null position.                                             *)
C2_ValidPositionsHoldIndexes ==
    arr.st = "ok" =>
        /\ Len(arr.col.validity) = Len(arr.col.values)
        /\ \A i \in 1..ColLen(arr.col) :
              arr.col.validity[i] => IsValidIndex(kind, arr.col.values[i])
        /\ call.op = "iter" =>
              /\ Len(ret.items) = ColLen(arr.col)
              /\ \A i \in 1..ColLen(arr.col) : ~arr.col.validity[i] => ret.items[i] = None
        /\ call.op = "get" => (~arr.col.validity[call.p + 1] => ret.items[1] = None)

(* iter ran over a column with a null position that holds bits of no index, *)
(* next to a valid position                                                 *)
C2_Witness ==
    /\ call.op = "iter"
    /\ \E i \in 1..ColLen(arr.col) :
          ~arr.col.validity[i] /\ ~IsValidIndex(kind, arr.col.values[i])
    /\ \E i \in 1..ColLen(arr.col) : arr.col.validity[i] /\ IsSome(ret.items[i])

TolerantOverWords == { "from_iter_with_validity_u64", "from_with_validity_vec" }
TolerantOverOptions == { "from_iter_with_validity_option", "from_with_validity_vec_option" }

(* input item i of a tolerant constructor, as an Option *)
TolerantItem(i) ==
    IF call.op \in TolerantOverWords THEN Some(call.input[i])
    ELSE IF call.op \in TolerantOverOptions THEN call.input[i]
    ELSE IF call.input.validity[i] THEN Some(call.input.values[i]) ELSE None
TolerantLen ==
    IF call.op = "from_with_validity_primitive_array" THEN Len(call.input.values)
    ELSE Len(call.input)

(* C3: tolerant construction never fails; the column has the input's        *)
(* length, position i is null exactly when input[i] is absent or invalid,   *)
(* and every other position holds input[i].                                 *)
C3_TolerantConstruction ==
    call.op \in TolerantOverWords \cup TolerantOverOptions
                \cup { "from_with_validity_primitive_array" } =>
        /\ arr.st = "ok"
        /\ ColLen(arr.col) = TolerantLen
        /\ Len(arr.col.validity) = TolerantLen
        /\ \A i \in 1..TolerantLen :
              /\ ~arr.col.validity[i] <=>
                    \/ TolerantItem(i) = None
                    \/ ~IsValidIndex(kind, Unwrap(TolerantItem(i)))
              /\ arr.col.validity[i] => arr.col.values[i] = Unwrap(TolerantItem(i))

(* a tolerant constructor met an absent item, an invalid word and a valid one *)
C3_Witness ==
    /\ call.op = "from_with_validity_vec_option"
    /\ \E i \in 1..Len(call.input) : call.input[i] = None
    /\ \E i \in 1..Len(call.input) :
          IsSome(call.input[i]) /\ ~IsValidIndex(kind, Unwrap(call.input[i]))
    /\ \E i \in 1..Len(call.input) : arr.col.validity[i]

----------------------------------------------------------------------------
(* Properties of change_resolution *)

(* every word that validates as a cell *)
CellWords ==
    { v \in MkRaw(CellMode, 0, 0, 0)..MkRaw(CellMode, 0, MaxRes, DigitsUnit - 1) :
        IsValidCell(v) }

(* a is c or an ancestor of c: a is not finer and they agree on a's digits *)
IsAncestorOrSelf(a, c) ==
    /\ ResOf(a) <= ResOf(c)
    /\ \A i \in 1..ResOf(a) : DigitOf(a, i) = DigitOf(c, i)

DescendantsAt(c, r) == { x \in CellWords : ResOf(x) = r /\ IsAncestorOrSelf(c, x) }

(* the valid cells of the column, in input order *)
ValidCells(col) ==
    LET pos == SelectSeq([i \in 1..ColLen(col) |-> i], LAMBDA i : col.validity[i])
    IN [j \in 1..Len(pos) |-> col.values[pos[j]]]

(* number of cells one input cell produces at resolution r *)
ProducedCount(c, r) == IF ResOf(c) < r THEN Pow(Aperture, r - ResOf(c)) ELSE 1

(* seg is what cell c contributes at resolution r *)
ProducedBy(c, r, seg) ==
    IF ResOf(c) < r
        THEN Range(seg) = DescendantsAt(c, r) /\ Len(seg) = Cardinality(DescendantsAt(c, r))
    ELSE IF ResOf(c) = r THEN seg = << c >>
    ELSE Len(seg) = 1 /\ seg[1] \in CellWords /\ ResOf(seg[1]) = r
         /\ IsAncestorOrSelf(seg[1], c)

(* out is, cell after cell, what the cells produce at resolution r *)
RECURSIVE ProducedInOrder(_, _, _)
ProducedInOrder(cells, r, out) ==
    IF cells = << >> THEN out = << >>
    ELSE LET n == ProducedCount(Head(cells), r)
         IN /\ Len(out) >= n
            /\ ProducedBy(Head(cells), r, SubSeq(out, 1, n))
            /\ ProducedInOrder(Tail(cells), r, SubSeq(out, n + 1, Len(out)))

RECURSIVE SumProduced(_, _)
SumProduced(cells, r) ==
    IF cells = << >> THEN 0
    ELSE ProducedCount(Head(cells), r) + SumProduced(Tail(cells), r)

(* the column [coarse cell, null, cell at least two levels finer] *)
ScenarioColumn ==
    FromIterOptionIndex(<< Some(CellAt(0)), None, Some(CellAt(MaxRes)) >>).col

(* C4: change_resolution emits, for each valid cell in input order, its     *)
(* descendants at the target (cell coarser), the cell (same resolution) or  *)
(* its one ancestor at the target (cell finer); nulls give nothing; the     *)
(* output has no null, only cells of the target resolution, and the summed  *)
(* length: 7 + 1 = 8 for [coarse cell, null, finer cell] and the target one *)
(* level below the coarse cell.                                             *)
C4_ChangeResolution ==
    call.op = "change_resolution" =>
        /\ ret.st = "ok"
        /\ ProducedInOrder(ValidCells(arr.col), call.p, ret.after.values)
        /\ NullCount(ret.after) = 0
        /\ Len(ret.after.validity) = Len(ret.after.values)
        /\ \A j \in 1..ColLen(ret.after) : ResOf(ret.after.values[j]) = call.p
        /\ ColLen(ret.after) = SumProduced(ValidCells(arr.col), call.p)
        /\ (arr.col = ScenarioColumn /\ call.p = 1) => ColLen(ret.after) = 7 + 1

(* the scenario ran: coarse cell, null, finer cell, target one level down *)
C4_Witness ==
    /\ call.op = "change_resolution"
    /\ arr.col = ScenarioColumn
    /\ call.p = 1
    /\ ColLen(ret.after) = 8

RECURSIVE RepeatedPerOutput(_, _)
RepeatedPerOutput(cells, r) ==
    IF cells = << >> THEN << >>
    ELSE Repeat(Head(cells), ProducedCount(Head(cells), r))
         \o RepeatedPerOutput(Tail(cells), r)

(* C5: change_resolution_paired returns before and after of equal length;   *)
(* after is what change_resolution returns; before[j] is the input cell     *)
(* after[j] came from (itself, its ancestor or a descendant at the target); *)
(* each valid input cell is repeated once per output it produced and nulls  *)
(* appear in neither column.                                                *)
C5_ChangeResolutionPaired ==
    call.op = "change_resolution_paired" =>
        /\ ret.st = "ok"
        /\ ColLen(ret.before) = ColLen(ret.after)
        /\ ret.after = ChangeResolution(arr.col, call.p)
        /\ NullCount(ret.before) = 0 /\ NullCount(ret.after) = 0
        /\ ret.before.values = RepeatedPerOutput(ValidCells(arr.col), call.p)
        /\ \A j \in 1..ColLen(ret.after) :
              LET b == ret.before.values[j]
                  a == ret.after.values[j]
              IN /\ ResOf(a) = call.p
                 /\ IF ResOf(b) <= call.p THEN IsAncestorOrSelf(b, a)
                                          ELSE IsAncestorOrSelf(a, b)

(* a paired call expanded one cell into several and mapped another to its   *)
(* ancestor, with a null between them                                       *)
C5_Witness ==
    /\ call.op = "change_resolution_paired"
    /\ arr.col = ScenarioColumn
    /\ call.p = 1
    /\ ColLen(ret.before) = 8
    /\ ret.before.values[1] = CellAt(0)
    /\ ret.before.values[8] = CellAt(MaxRes)

----------------------------------------------------------------------------
(* Properties of the lists *)

(* the column a sub-list pushed with these values reads back as *)
PushedColumn(vals) == OkArr([values |-> vals, validity |-> [i \in 1..Len(vals) |-> TRUE]])

(* C6: after any pushes and build, iter_arrays yields one item per push in  *)
(* push order: the pushed values as a present column for push_valid (a      *)
(* present, empty column when nothing was pushed), None for push_invalid.   *)
C6_BuilderReadsBack ==
    /\ call.op = "build" => list.st = "ok" /\ ListLen(list) = Len(pushed)
    /\ (bld.st = "moved" /\ subs.st = "ok") =>
          /\ Len(subs.items) = Len(pushed)
          /\ \A i \in 1..Len(pushed) :
                IF pushed[i] = None THEN subs.items[i] = None
                ELSE subs.items[i] = Some(PushedColumn(Unwrap(pushed[i])))

(* a list with an empty valid element, a null element and a filled one was  *)
(* read back                                                                *)
C6_Witness ==
    /\ bld.st = "moved"
    /\ subs.st = "ok"
    /\ \E i \in 1..Len(pushed) :
          pushed[i] = Some(<< >>) /\ subs.items[i] = Some(PushedColumn(<< >>))
    /\ \E i \in 1..Len(pushed) : pushed[i] = None /\ subs.items[i] = None
    /\ \E i \in 1..Len(pushed) : IsSome(pushed[i]) /\ Len(Unwrap(pushed[i])) > 0

ListOps == { "children", "grid_disk", "grid_disk_distances", "grid_ring_distances" }
DistanceOps == { "grid_disk_distances", "grid_ring_distances" }

(* outer element i of l has no values *)
EmptyElement(l, i) == l.offsets[i] = l.offsets[i + 1]

(* C7: every list-producing operation returns a list of the input's length  *)
(* whose element i is null exactly when input position i is null; a valid   *)
(* cell producing nothing (children coarser than the cell, a ring with      *)
(* k_min above k_max) gives a valid, empty element.                         *)
C7_ListOpsKeepOuterShape ==
    call.op \in ListOps =>
        /\ list.st = "ok"
        /\ ListLen(list) = ColLen(arr.col)
        /\ \A i \in 1..ColLen(arr.col) : list.validity[i] <=> arr.col.validity[i]
        /\ call.op \in DistanceOps =>
              /\ dists.st = "ok"
              /\ dists.validity = list.validity
        /\ \A i \in 1..ColLen(arr.col) :
              (/\ arr.col.validity[i]
               /\ \/ call.op = "children" /\ ResOf(arr.col.values[i]) > call.p
                  \/ call.op = "grid_ring_distances" /\ call.p > call.q)
              => list.validity[i] /\ EmptyElement(list, i)

(* a ring with k_min above k_max ran over a valid cell and a null *)
C7_Witness ==
    /\ call.op = "grid_ring_distances"
    /\ call.p > call.q
    /\ \E i \in 1..ColLen(arr.col) :
          arr.col.validity[i] /\ list.validity[i] /\ EmptyElement(list, i)
    /\ \E i \in 1..ColLen(arr.col) : ~arr.col.validity[i] /\ ~list.validity[i]

Built(l) == l.st \in { "ok", "moved" }

OffsetsWellFormed(l) ==
    /\ Len(l.offsets) = ListLen(l) + 1
    /\ l.offsets[1] = 0
    /\ \A i \in 1..ListLen(l) : l.offsets[i] <= l.offsets[i + 1]
    /\ l.offsets[ListLen(l) + 1] = ColLen(l.values)

ElementValues(l, i) == SubSeq(l.values.values, l.offsets[i] + 1, l.offsets[i + 1])

(* what the disk of a cell leaves after the ring filter: cells, distances *)
RingPairs(c, k_min, k_max) ==
    SelectSeq(grid_disk_distances(c, k_max), LAMBDA gd : gd[2] >= k_min)

(* C8: after pushes and build, and in the lists of grid_disk_distances and  *)
(* grid_ring_distances, there are M+1 offsets for M elements, the first is  *)
(* 0, they never decrease, the last is the number of values, and element i  *)
(* holds values[offsets[i] .. offsets[i+1]]; zero pushes give offsets [0].  *)
C8_Offsets ==
    /\ Built(list) => OffsetsWellFormed(list)
    /\ Built(dists) => OffsetsWellFormed(dists) /\ dists.offsets = list.offsets
    /\ call.op = "build" =>
          /\ list.st = "ok"
          /\ \A i \in 1..Len(pushed) :
                IsSome(pushed[i]) => ElementValues(list, i) = Unwrap(pushed[i])
          /\ pushed = << >> => list.offsets = << 0 >> /\ ListLen(list) = 0
    /\ call.op \in DistanceOps =>
          /\ list.st = "ok" /\ dists.st = "ok"
          /\ \A i \in 1..ColLen(arr.col) :
                arr.col.validity[i] =>
                   LET k_min == IF call.op = "grid_ring_distances" THEN call.p ELSE 0
                       k_max == IF call.op = "grid_ring_distances" THEN call.q ELSE call.p
                       pairs == RingPairs(arr.col.values[i], k_min, k_max)
                   IN /\ ElementValues(list, i) = [j \in 1..Len(pairs) |-> pairs[j][1]]
                      /\ ElementValues(dists, i) = [j \in 1..Len(pairs) |-> pairs[j][2]]

(* a list was built whose filled element starts after earlier values *)
C8_Witness ==
    /\ call.op = "build"
    /\ \E i \in 1..Len(pushed) :
          /\ IsSome(pushed[i])
          /\ Len(Unwrap(pushed[i])) > 0
          /\ list.offsets[i] > 0
          /\ ElementValues(list, i) = Unwrap(pushed[i])

RECURSIVE ConcatColumns(_)
ConcatColumns(cols) ==
    IF cols = << >> THEN NoCol
    ELSE [values |-> Head(cols).col.values \o ConcatColumns(Tail(cols)).values,
          validity |-> Head(cols).col.validity \o ConcatColumns(Tail(cols)).validity]

RECURSIVE SumLens(_)
SumLens(cols) == IF cols = << >> THEN 0 ELSE ColLen(Head(cols).col) + SumLens(Tail(cols))

(* C10: into_flattened returns Ok for every constructed list, and its       *)
(* column is the concatenation, in outer order, of the sub-columns          *)
(* iter_arrays yields for the non-null elements: the summed length, the     *)
(* inner validity kept, no trace of outer boundaries or outer nulls.        *)
C10_FlattenedIsConcatenation ==
    /\ flat.st # "none" => flat.st = "ok"
    /\ (flat.st = "ok" /\ subs.st = "ok") =>
          LET present == Flatten(subs.items)
          IN /\ \A i \in 1..Len(present) : present[i].st = "ok"
             /\ flat.col = ConcatColumns(present)
             /\ ColLen(flat.col) = SumLens(present)

(* a list with a null element and two filled ones was read and flattened *)
C10_Witness ==
    /\ flat.st = "ok"
    /\ subs.st = "ok"
    /\ \E i \in 1..Len(subs.items) : subs.items[i] = None
    /\ Len(SelectSeq(subs.items, LAMBDA o : IsSome(o) /\ ColLen(Unwrap(o).col) > 0)) >= 2

----------------------------------------------------------------------------
(* Properties of the spatial index *)

Positions == 1..ColLen(sidx.array)

(* position i of the indexed column went into the tree *)
Inserted(i) == sidx.array.validity[i]
GeomAt(i) == ToGeom(kind, sidx.array.values[i])
RectAt(i) == GeomBoundingRect(GeomAt(i))

RectsIntersect(a, b) ==
    /\ a.min[1] <= b.max[1] /\ b.min[1] <= a.max[1]
    /\ a.min[2] <= b.max[2] /\ b.min[2] <= a.max[2]

(* C11: on a cell column, intersect_polygon sets mask[i] to what the exact  *)
(* intersection test between the polygon and the boundary of cell i gives,  *)
(* for every position in the tree.                                          *)
C11_PolygonMaskIsExactIntersection ==
    (call.op = "intersect_polygon" /\ kind = "CellIndex") =>
        \A i \in Positions :
            Inserted(i) => (mask.bits[i] <=> PolygonIntersectsGeom(call.input, GeomAt(i)))

(* C12: intersect_envelopes sets mask[i] exactly when position i was        *)
(* inserted and its bounding rectangle intersects the query rectangle; the  *)
(* geometry itself is not consulted.                                        *)
C12_EnvelopesMask ==
    call.op = "intersect_envelopes" =>
        /\ mask.st = "ok"
        /\ \A i \in Positions :
              mask.bits[i] <=> (Inserted(i) /\ RectsIntersect(RectAt(i), call.input))

(* a cell was marked whose rectangle meets the query rectangle while its    *)
(* boundary polygon does not                                                *)
C12_Witness ==
    /\ call.op = "intersect_envelopes"
    /\ kind = "CellIndex"
    /\ call.input.min[1] < call.input.max[1]
    /\ call.input.min[2] < call.input.max[2]
    /\ \E i \in Positions :
          /\ mask.bits[i]
          /\ ~PolygonIntersectsGeom(
                RectPolygon(call.input.min[1], call.input.min[2],
                            call.input.max[1], call.input.max[2]), GeomAt(i))

SpatialQueries ==
    { "intersect_envelopes", "intersect_polygon", "intersect_multipolygon",
      "envelopes_within_distance" }

(* C13: every query returns a mask as long as the indexed column, with the  *)
(* bit of every null position false; on the empty column the index is built *)
(* and every query returns the empty mask.                                  *)
C13_MaskCoversColumn ==
    /\ call.op = "spatial_index" =>
          sidx.st = "ok" /\ sidx.array = arr.col /\ Len(sidx.rtree) <= ColLen(arr.col)
    /\ call.op \in SpatialQueries =>
          /\ mask.st = "ok"
          /\ Len(mask.bits) = ColLen(arr.col)
          /\ \A i \in Positions : ~arr.col.validity[i] => ~mask.bits[i]
          /\ ColLen(arr.col) = 0 => mask.bits = << >>

(* a distance query marked a position of a column that also holds a null *)
C13_Witness ==
    /\ call.op = "envelopes_within_distance"
    /\ \E i \in Positions : mask.bits[i]
    /\ \E i \in Positions : ~arr.col.validity[i] /\ ~mask.bits[i]

(* the mask before polygon j of the multipolygon is handled *)
MaskBefore(j) == IF j = 1 THEN NegativeMask(ColLen(sidx.array)) ELSE mask.steps[j - 1].mask

(* C14: intersect_multipolygon returns the position-wise OR of the masks of *)
(* intersect_polygon for the polygons; polygon by polygon no set bit is     *)
(* cleared, no position already set is tested again, and a polygon without  *)
(* bounding rectangle changes nothing.                                      *)
C14_MultipolygonIsOr ==
    call.op = "intersect_multipolygon" =>
        /\ Len(mask.steps) = Len(call.input)
        /\ \A i \in Positions :
              mask.bits[i] <=>
                 \E j \in 1..Len(call.input) :
                     IntersectPolygon(kind, sidx, call.input[j])[i]
        /\ \A j \in 1..Len(call.input) :
              /\ \A i \in Positions : MaskBefore(j)[i] => mask.steps[j].mask[i]
              /\ \A pos \in mask.steps[j].tested : ~MaskBefore(j)[pos + 1]
              /\ PolygonBoundingRect(call.input[j]) = None =>
                    mask.steps[j].mask = MaskBefore(j) /\ mask.steps[j].tested = { }
        /\ Len(call.input) > 0 => mask.bits = mask.steps[Len(call.input)].mask
        /\ Len(call.input) = 0 => mask.bits = NegativeMask(ColLen(sidx.array))

(* the second polygon covers a position the first one had set, leaves it    *)
(* untested and sets another one                                            *)
C14_Witness ==
    /\ call.op = "intersect_multipolygon"
    /\ Len(call.input) = 2
    /\ \E i \in Positions :
          /\ mask.steps[1].mask[i]
          /\ IntersectPolygon(kind, sidx, call.input[2])[i]
          /\ (i - 1) \notin mask.steps[2].tested
    /\ \E i \in Positions : ~mask.steps[1].mask[i] /\ mask.steps[2].mask[i]

(* C15: envelopes_within_distance sets mask[i] exactly when position i is   *)
(* in the tree and the distance from the coordinate to the nearest point of *)
(* its rectangle is at most the distance given (not its square).            *)
C15_WithinDistance ==
    call.op = "envelopes_within_distance" =>
        \A i \in Positions :
            mask.bits[i] <=>
               (Inserted(i) /\ Distance2(ToBBox(RectAt(i)), call.input) <= call.p * call.p)

----------------------------------------------------------------------------
(* Properties of the grid disks *)

(* the cells of the grid within distance k of the cell c *)
CellsWithin(c, k) == { x \in Range(Siblings(c)) : GridDistance(c, x) <= k }

(* C16: grid_disk gives, for each valid input cell, an element holding      *)
(* exactly the cells within grid distance k of it, each once; for k = 0 the *)
(* element is the input cell alone.                                         *)
C16_GridDisk ==
    call.op = "grid_disk" =>
        /\ list.st = "ok"
        /\ \A i \in 1..ColLen(arr.col) :
              arr.col.validity[i] =>
                 LET el == ElementValues(list, i)
                 IN /\ Range(el) = CellsWithin(arr.col.values[i], call.p)
                    /\ Cardinality(Range(el)) = Len(el)
                    /\ call.p = 0 => el = << arr.col.values[i] >>

(* a disk of radius at least 1 around a cell with neighbours, holding some  *)
(* of them and not all                                                      *)
C16_Witness ==
    /\ call.op = "grid_disk"
    /\ call.p >= 1
    /\ \E i \in 1..ColLen(arr.col) :
          /\ arr.col.validity[i]
          /\ Len(ElementValues(list, i)) > 1
          /\ Len(ElementValues(list, i)) < Aperture

(* C17: grid_disk_distances returns two lists with the same offsets, the    *)
(* same outer validity and equally many flat values, and the distance at    *)
(* flat position j is the grid distance of the cell at j from the input     *)
(* cell of the element holding j, between 0 and k.                          *)
C17_DistancesParallel ==
    call.op = "grid_disk_distances" =>
        /\ list.st = "ok" /\ dists.st = "ok"
        /\ list.offsets = dists.offsets
        /\ list.validity = dists.validity
        /\ ColLen(list.values) = ColLen(dists.values)
        /\ \A i \in 1..ColLen(arr.col) :
              \A j \in (list.offsets[i] + 1)..list.offsets[i + 1] :
                 /\ arr.col.validity[i]
                 /\ dists.values.values[j]
                       = GridDistance(arr.col.values[i], list.values.values[j])
                 /\ dists.values.values[j] \in 0..call.p

(* distances 0 and 1 stand next to their cells, after a null element *)
C17_Witness ==
    /\ call.op = "grid_disk_distances"
    /\ \E i \in 1..ColLen(arr.col) : ~arr.col.validity[i]
    /\ \E j \in 1..ColLen(dists.values) : dists.values.values[j] = 0
    /\ \E j \in 1..ColLen(dists.values) : dists.values.values[j] >= 1

(* the (cell, distance) pairs of element i of two parallel lists *)
ElementPairs(cells, distances, i) ==
    LET cs == ElementValues(cells, i)
        ds == ElementValues(distances, i)
    IN [j \in 1..Len(cs) |-> << cs[j], ds[j] >>]

(* C18: grid_ring_distances gives, for each valid input cell, the pairs of  *)
(* grid_disk_distances(column, k_max) whose distance is at least k_min, in  *)
(* the same order; the two lists stay parallel and no distance lies below   *)
(* k_min or above k_max.                                                    *)
C18_RingIsFilteredDisk ==
    call.op = "grid_ring_distances" =>
        LET disk == GridDiskDistances(arr.col, call.q)
        IN /\ list.st = "ok" /\ dists.st = "ok"
           /\ list.offsets = dists.offsets
           /\ list.validity = dists.validity
           /\ \A i \in 1..ColLen(arr.col) :
                 arr.col.validity[i] =>
                    /\ ElementPairs(list, dists, i)
                          = SelectSeq(ElementPairs(disk.cells, disk.distances, i),
                                      LAMBDA pr : pr[2] >= call.p)
                    /\ \A j \in 1..Len(ElementValues(dists, i)) :
                          ElementValues(dists, i)[j] \in call.p..call.q

(* a ring that keeps some pairs of the disk and drops others *)
C18_Witness ==
    /\ call.op = "grid_ring_distances"
    /\ call.p >= 1
    /\ \E i \in 1..ColLen(arr.col) :
          /\ arr.col.validity[i]
          /\ Len(ElementValues(list, i)) >= 1
          /\ Len(ElementValues(list, i))
                < Len(ElementValues(GridDiskDistances(arr.col, call.q).cells, i))

----------------------------------------------------------------------------
(* Properties of grid_disk_aggregate_k *)

(* the valid input cells whose k-disk holds the cell x, and the distances   *)
(* x is seen at                                                             *)
SeedsOf(x, k) == { c \in Range(ValidCells(arr.col)) : x \in CellsWithin(c, k) }
DistancesOf(x, k) == { GridDistance(c, x) : c \in SeedsOf(x, k) }
SetMin(S) == CHOOSE m \in S : \A y \in S : m <= y
SetMax(S) == CHOOSE m \in S : \A y \in S : m >= y

(* C19: grid_disk_aggregate_k returns cells and distances of equal length,  *)
(* no cell twice, the cells being the union of the k-disks of the valid     *)
(* input cells, each with the minimum (Min) or maximum (Max) of the         *)
(* distances it is seen at.                                                 *)
C19_AggregateK ==
    call.op = "grid_disk_aggregate_k" =>
        /\ agg.st = "ok"
        /\ ColLen(agg.cells) = ColLen(agg.distances)
        /\ NullCount(agg.cells) = 0 /\ NullCount(agg.distances) = 0
        /\ Cardinality(Range(agg.cells.values)) = ColLen(agg.cells)
        /\ Range(agg.cells.values)
              = UNION { CellsWithin(c, call.p) : c \in Range(ValidCells(arr.col)) }
        /\ \A j \in 1..ColLen(agg.cells) :
              agg.distances.values[j]
                 = IF call.input = "Min"
                   THEN SetMin(DistancesOf(agg.cells.values[j], call.p))
                   ELSE SetMax(DistancesOf(agg.cells.values[j], call.p))

(* a cell seen at two distances got the smaller one under Min, in a column  *)
(* that also holds a null                                                   *)
C19_Witness ==
    /\ call.op = "grid_disk_aggregate_k"
    /\ call.input = "Min"
    /\ \E i \in 1..ColLen(arr.col) : ~arr.col.validity[i]
    /\ \E j \in 1..ColLen(agg.cells) :
          LET ds == DistancesOf(agg.cells.values[j], call.p)
          IN /\ Cardinality(ds) = 2
             /\ agg.distances.values[j] = SetMin(ds)
             /\ agg.distances.values[j] < SetMax(ds)

(* the same under Max *)
C19_WitnessMax ==
    /\ call.op = "grid_disk_aggregate_k"
    /\ call.input = "Max"
    /\ \E j \in 1..ColLen(agg.cells) :
          LET ds == DistancesOf(agg.cells.values[j], call.p)
          IN Cardinality(ds) = 2 /\ agg.distances.values[j] = SetMax(ds)

----------------------------------------------------------------------------
(* Properties of the one-to-one operations *)

MapOps == { "resolution", "parent", "children_count", "owner", "origin", "destination" }

(* what the mapped function gives for the word v: None when it has no result *)
MappedValue(op, v, p) ==
    CASE op = "resolution" -> Some(ResOf(v))
      [] op = "parent" -> CellParent(v, p)
      [] op = "children_count" -> Some(CellChildrenCount(v, p))
      [] op = "owner" -> Some(VertexOwner(v))
      [] op = "origin" -> Some(EdgeOrigin(v))
      [] op = "destination" -> Some(EdgeDestination(v))

(* C20: a one-to-one operation returns a column of the input's length, null *)
(* wherever the input is null (whatever word the null slot holds), holding  *)
(* the function's value at the valid positions and null where the function  *)
(* has no result (parent at a finer resolution), never a substitute.        *)
C20_OneToOne ==
    call.op \in MapOps =>
        /\ mapped.st = "ok"
        /\ ColLen(mapped.col) = ColLen(arr.col)
        /\ Len(mapped.col.validity) = ColLen(arr.col)
        /\ \A i \in 1..ColLen(arr.col) :
              IF arr.col.validity[i]
              THEN LET r == MappedValue(call.op, arr.col.values[i], call.p)
                   IN /\ mapped.col.validity[i] <=> IsSome(r)
                      /\ IsSome(r) => mapped.col.values[i] = Unwrap(r)
                      /\ ~IsSome(r) => mapped.col.values[i] = 0
              ELSE ~mapped.col.validity[i] /\ mapped.col.values[i] = 0

(* parent over a column with a null, a cell that has the parent asked for   *)
(* and a cell coarser than the resolution asked for                         *)
C20_Witness ==
    /\ call.op = "parent"
    /\ \E i \in 1..ColLen(arr.col) : ~arr.col.validity[i] /\ ~mapped.col.validity[i]
    /\ \E i \in 1..ColLen(arr.col) :
          /\ arr.col.validity[i]
          /\ ResOf(arr.col.values[i]) < call.p
          /\ ~mapped.col.validity[i]
    /\ \E i \in 1..ColLen(arr.col) :
          /\ arr.col.validity[i]
          /\ ResOf(arr.col.values[i]) > call.p
          /\ mapped.col.validity[i]

----------------------------------------------------------------------------
(* Properties of the failure modes *)

(* C21: when strict construction fails, the error names the offending word *)
(* and its position in the input, and there is no column: the position is   *)
(* named when no input with another first invalid position yields the same  *)
(* error.                                                                   *)
C21_ErrorNamesValueAndPosition ==
    (call.op = "try_from_vec" /\ arr.st = "err") =>
        LET bad == FirstInvalid(kind, call.input)
        IN /\ bad # 0
           /\ arr.errvalue = Some(call.input[bad])
           /\ arr.col = NoCol
           /\ \A vs \in RawVecs :
                 TryFromVec(kind, vs) = arr => FirstInvalid(kind, vs) = bad

C23_EnvelopesIdempotentMonotonic ==
    (call.op = "intersect_envelopes" /\ call.q = 1) =>
        LET first == mask.steps[1]
        IN /\ Len(mask.bits) = Len(first.mask)
           /\ first.input = call.input => mask.bits = first.mask
           /\ (/\ call.input.min[1] <= first.input.min[1]
               /\ first.input.max[1] <= call.input.max[1]
               /\ call.input.min[2] <= first.input.min[2]
               /\ first.input.max[2] <= call.input.max[2])
                 => \A i \in Positions : first.mask[i] => mask.bits[i]

(* the second call had a strictly larger rectangle, kept a bit of the first *)
(* call and added one                                                       *)
C23_Witness ==
    /\ call.op = "intersect_envelopes"
    /\ call.q = 1
    /\ mask.steps[1].input # call.input
    /\ \E i \in Positions : mask.steps[1].mask[i] /\ mask.bits[i]
    /\ \E i \in Positions : ~mask.steps[1].mask[i] /\ mask.bits[i]

----------------------------------------------------------------------------
(* Properties of parsing *)

ParseOps == { "parse_utf8array", "parse_cells" }

(* C24: with set_failing_to_invalid the parse never fails and an unparsable *)
(* string becomes a null at its position; without it the parse fails, with  *)
(* the error of the first unparsable string and no column, exactly when a   *)
(* non-null string cannot be parsed; a successful result has the input's    *)
(* length, a null for every null string and each parsed index at the        *)
(* position of its string.                                                  *)
C24_ParseModes ==
    call.op \in ParseOps =>
        LET u == call.input
            parsed(i) == Conv(kind, Unwrap(u[i]))
            unparsable == { i \in 1..Len(u) : IsSome(u[i]) /\ ~parsed(i).ok }
        IN /\ call.p = 1 => arr.st = "ok"
           /\ call.p = 0 => (arr.st = "err" <=> unparsable # { })
           /\ arr.st = "err" =>
                 /\ arr.col = NoCol
                 /\ \E i \in unparsable :
                       /\ \A j \in unparsable : i <= j
                       /\ arr.err = parsed(i).err
           /\ arr.st = "ok" =>
                 /\ ColLen(arr.col) = Len(u)
                 /\ \A i \in 1..Len(u) :
                       H3Get(arr.col, i - 1) =
                           IF IsSome(u[i]) /\ parsed(i).ok THEN Some(parsed(i).value)
                           ELSE None

(* tolerant parsing of an array with a null string, an unparsable string    *)
(* and, after both, a string that parses                                    *)
C24_Witness ==
    /\ call.op = "parse_utf8array"
    /\ call.p = 1
    /\ arr.st = "ok"
    /\ \E i, j, l \in 1..Len(call.input) :
          /\ i < l /\ j < l
          /\ ~IsSome(call.input[i])
          /\ IsSome(call.input[j]) /\ ~Conv(kind, Unwrap(call.input[j])).ok
          /\ IsSome(call.input[l]) /\ H3Get(arr.col, l - 1) # None

----------------------------------------------------------------------------
(* Properties of the coordinates *)

(* C25: to_coordinates returns the centre of every valid cell in degrees    *)
(* and to_coordinates_radians returns it in radians; both arrays have the   *)
(* column's length and validity.                                            *)
C25_CoordinatesInBothUnits ==
    call.op \in { "to_coordinates", "to_coordinates_radians" } =>
        /\ Len(mapped.col.lat.values) = ColLen(arr.col)
        /\ Len(mapped.col.lng.values) = ColLen(arr.col)
        /\ mapped.col.lat.validity = arr.col.validity
        /\ mapped.col.lng.validity = arr.col.validity
        /\ \A i \in 1..ColLen(arr.col) :
              arr.col.validity[i] =>
                  LET ll == LatLngFrom(kind, arr.col.values[i])
                  IN IF call.op = "to_coordinates"
                     THEN /\ mapped.col.lat.values[i] = Lat(ll)
                          /\ mapped.col.lng.values[i] = Lng(ll)
                     ELSE /\ mapped.col.lat.values[i] = LatRadians(ll)
                          /\ mapped.col.lng.values[i] = LngRadians(ll)

(* C29: to_geo_points gives, for every valid position, the point whose x is *)
(* the longitude and whose y is the latitude of the element's location, in  *)
(* degrees when use_degrees is set and in radians otherwise; a null         *)
(* position gives None and there is one item per position.                  *)
C29_GeoPointsLngLat ==
    call.op = "to_geo_points" =>
        /\ Len(mapped.col) = ColLen(arr.col)
        /\ \A i \in 1..ColLen(arr.col) :
              IF arr.col.validity[i]
              THEN LET ll == LatLngFrom(kind, arr.col.values[i])
                   IN mapped.col[i] =
                          Some(IF call.p = 1 THEN Coord(Lng(ll), Lat(ll))
                               ELSE Coord(LngRadians(ll), LatRadians(ll)))
              ELSE mapped.col[i] = None

----------------------------------------------------------------------------
(* Properties of the tree *)

(* C26: once the index is built, and after every query on it, the index     *)
(* holds the column it was built from and the tree holds one entry for each *)
(* valid position that has a bounding rectangle and nothing else: every     *)
(* entry's position is inside the column, valid, in the tree once, and      *)
(* stored with the bounding rectangle of its own element; a null position   *)
(* has no entry.                                                            *)
C26_TreeEntries ==
    sidx.st = "ok" =>
        /\ sidx.array = arr.col
        /\ \A j \in 1..Len(sidx.rtree) :
              LET e == sidx.rtree[j]
              IN /\ e.data \in 0..(ColLen(arr.col) - 1)
                 /\ arr.col.validity[e.data + 1]
                 /\ \A o \in 1..Len(sidx.rtree) : o # j => sidx.rtree[o].data # e.data
                 /\ e.geom.lower = RectAt(e.data + 1).min
                 /\ e.geom.upper = RectAt(e.data + 1).max
        /\ Len(sidx.rtree) =
              Cardinality({ i \in 1..ColLen(arr.col) :
                              /\ arr.col.validity[i]
                              /\ IsSome(SpatialIndexRect(kind, arr.col.values[i])) })
        /\ \A i \in 1..ColLen(arr.col) :
              ~arr.col.validity[i] => \A j \in 1..Len(sidx.rtree) : sidx.rtree[j].data # i - 1

(* a polygon query marked a position of an index over two cells and a null, *)
(* and the tree still holds its two entries                                 *)
C26_Witness ==
    /\ call.op = "intersect_polygon"
    /\ kind = "CellIndex"
    /\ \E i \in Positions : mask.bits[i]
    /\ \E i \in Positions : ~arr.col.validity[i]
    /\ Len(sidx.rtree) = 2

----------------------------------------------------------------------------
(* Properties of the reduction of grid_disk_aggregate_k *)

PairSet(g) ==
    { << g.cells.values[j], g.distances.values[j] >> : j \in 1..ColLen(g.cells) }

(* C27: aggregating the column with its cells in another order, or          *)
(* aggregating the parts of any partition separately and merging the maps   *)
(* with the same rule in either grouping, also with a map merged twice,     *)
(* gives the pairs of (cell, distance) that aggregating the column gives.   *)
C27_AggregateOrderAndMerge ==
    call.op \in { "aggregate_reordered", "aggregate_parts" } =>
        LET cellmap == AggregateMap(arr.col, call.p, call.input)
        IN /\ Range(agg.cells.values) = DOMAIN cellmap
           /\ PairSet(agg) = { << x, cellmap[x] >> : x \in DOMAIN cellmap }

(* three workers got one cell each, two of them see the same cell at        *)
(* different distances, and the maps were merged right to left              *)
C27_Witness ==
    /\ call.op = "aggregate_parts"
    /\ call.q[2] = "right"
    /\ ColLen(arr.col) = 3
    /\ NullCount(arr.col) = 0
    /\ \A w \in Workers : \E i \in 1..3 : call.q[1][i] = w
    /\ \E j \in 1..ColLen(agg.cells) :
          Cardinality(DistancesOf(agg.cells.values[j], call.p)) = 2

----------------------------------------------------------------------------
(* Properties of the conversion from an Arrow list array *)

(* every value of every non-null element of the list array is a valid       *)
(* index of the kind                                                        *)
ElementsValid(k, value) ==
    \A i \in 1..ListLen(value) :
        value.validity[i] =>
            \A j \in (value.offsets[i] + 1)..value.offsets[i + 1] :
                value.values.validity[j] => IsValidIndex(k, value.values.values[j])

(* C28: H3ListArray::try_from(GenericListArray) succeeds, with the length   *)
(* and the validity of the list array, when the child values are UInt64     *)
(* and every value of a non-null element is a valid index of the kind; it   *)
(* returns an error when the child type is not UInt64 or some value of a    *)
(* non-null element is not a valid index.                                   *)
C28_TryFromGenericListArray ==
    call.op = "try_from_generic_list_array" =>
        LET value == call.input
            accepted == /\ ChildType(value.data_type) = UInt64Type
                        /\ ElementsValid(kind, value)
        IN /\ accepted => /\ list.st = "ok"
                          /\ ListLen(list) = ListLen(value)
                          /\ list.validity = value.validity
           /\ ~accepted => list.st = "err"

----------------------------------------------------------------------------
(* Properties of the parallel conversion of geometries *)

(* how often each value occurs in a sequence *)
Occurrences(f) == [x \in Range(f) |-> Cardinality({ i \in DOMAIN f : f[i] = x })]

(* the geometries of the input that geometry_to_cells refuses *)
Failing(geoms, options) ==
    { i \in 1..Len(geoms) :
        IsSome(geoms[i]) /\ ~geometry_to_cells(Unwrap(geoms[i]), options).ok }

(* the cells the present geometries have together *)
RECURSIVE CellCount(_, _)
CellCount(geoms, options) ==
    IF geoms = << >> THEN 0
    ELSE CellCount(Tail(geoms), options)
           + (IF IsSome(Head(geoms))
              THEN Len(geometry_to_cells(Unwrap(Head(geoms)), options).value)
              ELSE 0)

(* C30: par_to_cellindexarray returns the cells to_cellindexarray returns   *)
(* for the same geometries and options, each as often, whatever the split   *)
(* of the input and the order of the reductions; only their order may       *)
(* differ.  A None adds no cell: there are as many cells as the present     *)
(* geometries have together.  If a geometry fails to convert, the call      *)
(* returns an error and no column.                                          *)
C30_ParallelSameCells ==
    (call.op = "par_to_cellindexarray" /\ par.st = "done") =>
        LET sequential == ToCellIndexArray(call.input, call.p)
        IN IF Failing(call.input, call.p) # { }
           THEN arr.st = "err" /\ arr.col = NoCol /\ sequential.st = "err"
           ELSE /\ arr.st = "ok" /\ sequential.st = "ok"
                /\ \A i \in 1..ColLen(arr.col) : arr.col.validity[i]
                /\ Occurrences(arr.col.values) = Occurrences(sequential.col.values)
                /\ ColLen(arr.col) = ColLen(sequential.col)
                /\ ColLen(arr.col) = CellCount(call.input, call.p)

(* a parallel call over a None and two geometries with cells, split among   *)
(* several workers, returned the cells in another order than the            *)
(* sequential call                                                          *)
C30_Witness ==
    /\ call.op = "par_to_cellindexarray" /\ par.st = "done"
    /\ arr.st = "ok"
    /\ call.q[1] > 0 /\ call.q[2] > call.q[1]
    /\ \E i \in 1..Len(call.input) : ~IsSome(call.input[i])
    /\ ColLen(arr.col) > 2
    /\ arr.col.values # ToCellIndexArray(call.input, call.p).col.values

============================================================================
